---- MODULE Spec2Model ----
(***************************************************************************)
(* A model of the weather agent: its pure core, its query classifier and    *)
(* the endpoint that chains the stages of a request:                        *)
(*   utils/json_utils.py     ensure_strict_schema  (the schema strictifier) *)
(*   utils/request_utils.py  build_weather_params  (the query builder),     *)
(*                           get_weather_parameters_description,            *)
(*                           get_weather_request_parameters_description     *)
(*   models/requests.py      the request models                             *)
(*   agents/simple_agent.py  classify_weather_query,                        *)
(*                           generate_weather_request, answer_weather_query *)
(*   utils/geo_utils.py      get_location_from_ip                           *)
(*   main.py                 get_current_weather, simple_weather_agent      *)
(*                                                                         *)
(* Python values are represented as follows.                               *)
(*   dict        a sequence of <<key, value>> pairs in insertion order,     *)
(*               keys distinct (Python dicts keep insertion order)         *)
(*   list        a sequence                                                *)
(*   Optional[T] <<>> for None, <<v>> for the value v                       *)
(*   true        (the boolean JSON schema) the one-pair sequence JTrue      *)
(* Equality of two modelled dicts is equality of key order too, which is   *)
(* finer than Python's ==: equal in the model implies equal in Python.     *)
(***************************************************************************)
EXTENDS Integers, Sequences, FiniteSets, TLC

VARIABLES
    schema,     \* the dict object the caller passes to ensure_strict_schema
    given,      \* the value of that object before the first call
    result,     \* the value the last call returned
    first,      \* the value the first call returned
    calls,      \* number of calls of ensure_strict_schema made so far
    kwargs,     \* the flags CurrentWeatherParameters was constructed with, as supplied
    request,    \* the CurrentWeatherRequest given to build_weather_params
    params,     \* the dict build_weather_params returned
    built,      \* whether build_weather_params has returned
    promptsFile, \* what prompts/prompts.json holds
    configFile, \* what configs/config.json holds
    llm,        \* what the chat completion does when it is called
    cpc,        \* where classify_weather_query stands
    prompts,    \* the local prompts of the function that is running
    config,     \* the local config of the function that is running
    exc,        \* the exception raised inside its try block, if any
    ret,        \* the value it returned
    fault,      \* the exception the last call of ensure_strict_schema raised, if any
    apc,        \* where simple_weather_agent stands
    callerIp,   \* the address the HTTP request was sent from
    gpc,        \* where generate_weather_request stands
    gexc,       \* the exception raised inside its try block, if any
    request_data, \* its local request_data
    generated,  \* what it did: returned a request or raised an error
    log,        \* the outbound calls made so far, in order, each with its success
    stages,     \* the functions the endpoint has called so far, in order
    target_ip,  \* the address handed to the geolocation provider
    geo_data,   \* the body the geolocation provider answered with, if it did
    fexc,       \* the exception raised inside get_current_weather's try block, if any
    fetched,    \* what get_current_weather did: returned or raised
    answered,   \* what answer_weather_query did: returned or raised
    response,   \* the HTTP response of the endpoint
    model,      \* the name of the model class whose fields are described
    model_fields, \* the model_fields of that class: its (name, description) pairs
    description_text, \* the string the description function returned
    locate_ip,  \* the client_ip that get_location_from_ip is called with
    ipify,      \* what the request to api.ipify.org does
    ipapi,      \* what the request to ipapi.co does
    location,   \* what get_location_from_ip did: its outcome, its calls, the address located
    base_request_schema, \* the local base_request_schema of generate_weather_request
    response_format, \* the schema sent with the request-building completion
    request_output \* the parsed content of the request-building completion

strictVars == <<schema, given, result, first, calls, fault>>
buildVars == <<kwargs, request, params, built>>
classifyVars == <<promptsFile, configFile, llm, cpc, prompts, config, exc, ret>>
agentVars ==
    <<apc, callerIp, gpc, gexc, request_data, generated, log, stages, target_ip, geo_data,
      fexc, fetched, answered, response>>
describeVars == <<model, model_fields, description_text>>
locateVars == <<locate_ip, ipify, ipapi, location>>
schemaVars == <<base_request_schema, response_format>>
outputVars == <<request_output>>
vars == <<strictVars, buildVars, classifyVars, agentVars, describeVars, locateVars, schemaVars, outputVars>>

-----------------------------------------------------------------------------
(* Python dict and list primitives *)

None == <<>>
Some(v) == <<v>>

\* the sequence f as an explicit tuple (the same value, evaluated once)
AsList(f) == SubSeq(f, 1, Len(f))

\* key in d
Has(d, k) == \E i \in 1..Len(d) : d[i][1] = k

\* d[k], for a key that is present
Get(d, k) == d[CHOOSE i \in 1..Len(d) : d[i][1] = k][2]

\* d[k] = v: an existing key keeps its position, a new key goes last
Put(d, k, v) ==
    IF Has(d, k)
    THEN AsList([i \in 1..Len(d) |-> IF d[i][1] = k THEN <<k, v>> ELSE d[i]])
    ELSE Append(d, <<k, v>>)

\* list(d.keys())
Keys(d) == AsList([i \in 1..Len(d) |-> d[i][1]])

\* the boolean schema true: a schema that is not a dict
JTrue == << <<"$bool", TRUE>> >>

\* isinstance(schema, dict)
IsDict(s) == ~Has(s, "$bool")

\* schema.get('type') == t
TypeIs(s, t) == Has(s, "type") /\ Get(s, "type") = t

-----------------------------------------------------------------------------
(* Each specification below runs one function, or the endpoint with the     *)
(* functions it calls; the state of the others stays as follows.            *)

StrictIdle ==
    /\ schema = None
    /\ given = None
    /\ result = None
    /\ first = None
    /\ calls = 0
    /\ fault = None

NoRequest == [ latitude |-> 0 ]

BuildIdle ==
    /\ kwargs = None
    /\ request = NoRequest
    /\ params = None
    /\ built = FALSE

ClassifyIdle ==
    /\ promptsFile = <<"missing">>
    /\ configFile = <<"missing">>
    /\ llm = <<"raise", "APIConnectionError">>
    /\ cpc = "idle"
    /\ prompts = None
    /\ config = None
    /\ exc = None
    /\ ret = None

AgentIdle ==
    /\ apc = "idle"
    /\ callerIp = ""
    /\ gpc = "idle"
    /\ gexc = None
    /\ request_data = None
    /\ generated = None
    /\ log = <<>>
    /\ stages = <<>>
    /\ target_ip = None
    /\ geo_data = None
    /\ fexc = None
    /\ fetched = None
    /\ answered = None
    /\ response = None

DescribeIdle ==
    /\ model = ""
    /\ model_fields = <<>>
    /\ description_text = None

LocateIdle ==
    /\ locate_ip = None
    /\ ipify = <<"ok", <<>> >>
    /\ ipapi = <<"ok", <<>> >>
    /\ location = None

SchemaIdle ==
    /\ base_request_schema = None
    /\ response_format = None

OutputIdle ==
    /\ request_output = None

-----------------------------------------------------------------------------
(* utils/json_utils.py: ensure_strict_schema *)

RECURSIVE ensure_strict_schema(_)

\* for name, sub in d.items(): d[name] = ensure_strict_schema(sub)
StrictValues(d) ==
    AsList([i \in 1..Len(d) |-> <<d[i][1], ensure_strict_schema(d[i][2])>>])

\* a variant that collects the members in reverse order
StrictMembersReversed(lst) ==
    AsList([i \in 1..Len(lst) |-> ensure_strict_schema(lst[Len(lst) + 1 - i])])

\* [ensure_strict_schema(s) for s in lst]
StrictMembers(lst) == AsList([i \in 1..Len(lst) |-> ensure_strict_schema(lst[i])])

\* a variant that extends the required list the node already has
SetRequiredExtend(s) ==
    Put(s, "required",
        (IF Has(s, "required") THEN Get(s, "required") ELSE <<>>) \o Keys(Get(s, "properties")))

\* a variant that keeps the required list the node already has
SetRequiredKeep(s) ==
    IF Has(s, "required") THEN s ELSE Put(s, "required", Keys(Get(s, "properties")))

\* schema['required'] = list(schema['properties'].keys())
SetRequired(s) == Put(s, "required", Keys(Get(s, "properties")))

\* a variant that sets required on every object node, to the empty list when
\* the node declares no properties
ObjectRuleRequiredAlways(s) ==
    LET a == Put(s, "additionalProperties", FALSE)
    IN  IF Has(a, "properties")
        THEN LET b == SetRequired(a)
             IN  Put(b, "properties", StrictValues(Get(b, "properties")))
        ELSE Put(a, "required", <<>>)

\* the branch for type == 'object'
ObjectRule(s) ==
    LET a == Put(s, "additionalProperties", FALSE)
    IN  IF Has(a, "properties")
        THEN LET b == SetRequired(a)
             IN  Put(b, "properties", StrictValues(Get(b, "properties")))
        ELSE a

\* a variant that leaves items as they are
ArrayRuleSkip(s) == s

\* the branch for type == 'array' with items
ArrayRule(s) == Put(s, "items", ensure_strict_schema(Get(s, "items")))

\* if / elif on the node's type
TypeRule(s) ==
    IF TypeIs(s, "object") THEN ObjectRule(s)
    ELSE IF TypeIs(s, "array") /\ Has(s, "items") THEN ArrayRule(s)
    ELSE s

UnionKeys == <<"anyOf", "oneOf", "allOf">>

\* for key in ['anyOf', 'oneOf', 'allOf']: the first n keys of the loop
RECURSIVE UnionRule(_, _)
UnionRule(s, n) ==
    IF n = 0 THEN s
    ELSE LET t == UnionRule(s, n - 1)
             key == UnionKeys[n]
         IN  IF Has(t, key) THEN Put(t, key, StrictMembers(Get(t, key))) ELSE t

\* if '$defs' in schema
DefsRule(s) ==
    IF Has(s, "$defs") THEN Put(s, "$defs", StrictValues(Get(s, "$defs"))) ELSE s

\* a variant in which the type, the unions and $defs are branches of one
\* if / elif chain
SingleBranch(s) ==
    IF ~IsDict(s) THEN s
    ELSE IF TypeIs(s, "object") THEN ObjectRule(s)
    ELSE IF TypeIs(s, "array") /\ Has(s, "items") THEN ArrayRule(s)
    ELSE IF \E n \in 1..Len(UnionKeys) : Has(s, UnionKeys[n]) THEN UnionRule(s, Len(UnionKeys))
    ELSE DefsRule(s)

ensure_strict_schema(s) ==
    IF IsDict(s) THEN DefsRule(UnionRule(TypeRule(s), Len(UnionKeys))) ELSE s

\* The exception a call raises, if any.  The statements that can raise are
\* the reads of the node and of its sub-documents; a recursive call raises
\* what the call on the sub-schema raises.
RECURSIVE Fault(_)

\* the first exception of a sequence of statements
RECURSIVE FirstFault(_)
FirstFault(fs) ==
    IF fs = <<>> THEN None
    ELSE IF fs[1] # None THEN fs[1] ELSE FirstFault(Tail(fs))

\* a variant that reads the key with schema[k]
SubscriptFault(s, k) == IF Has(s, k) THEN None ELSE Some("KeyError")

\* schema.get(k): raises nothing, whether the key is there or not
GetFault(s, k) == None

\* d.keys() and d.items(), which only a dict has
KeysFault(d) == IF IsDict(d) THEN None ELSE Some("AttributeError")

\* the recursive calls on the values of a dict, in order
ValuesFault(d) == FirstFault(AsList([i \in 1..Len(d) |-> Fault(d[i][2])]))

\* the recursive calls on the members of a list, in order
MembersFault(lst) == FirstFault(AsList([i \in 1..Len(lst) |-> Fault(lst[i])]))

\* the if / elif on the node's type
TypeFault(s) ==
    IF GetFault(s, "type") # None THEN GetFault(s, "type")
    ELSE IF TypeIs(s, "object")
    THEN IF Has(s, "properties")
         THEN LET p == Get(s, "properties")
              IN  IF KeysFault(p) # None THEN KeysFault(p) ELSE ValuesFault(p)
         ELSE None
    ELSE IF TypeIs(s, "array") /\ Has(s, "items") THEN Fault(Get(s, "items"))
    ELSE None

\* the loop over anyOf, oneOf, allOf
UnionFault(s) ==
    FirstFault(AsList([n \in 1..Len(UnionKeys) |->
        IF Has(s, UnionKeys[n])
        THEN MembersFault(Get(s, UnionKeys[n]))
        ELSE None]))

\* the block for $defs
DefsFault(s) ==
    IF Has(s, "$defs")
    THEN LET d == Get(s, "$defs")
         IN  IF KeysFault(d) # None THEN KeysFault(d) ELSE ValuesFault(d)
    ELSE None

Fault(s) ==
    IF IsDict(s) THEN FirstFault(<<TypeFault(s), UnionFault(s), DefsFault(s)>>) ELSE None

-----------------------------------------------------------------------------
(* The schemas given to ensure_strict_schema: every well-formed schema tree *)
(* of weight at most MaxNodes over the keywords below.                      *)

MaxNodes == 3

PropNames == <<"b", "a", "d", "c">>
DefNames == <<"M", "K", "N", "L">>

\* single nodes
Leaves ==
    { JTrue,
      <<>>,
      << <<"type", "object">> >>,
      << <<"type", "array">> >> }

\* an object node that already carries a required list and additionalProperties
StaleObject ==
    << <<"type", "object">>, <<"required", <<"z">> >>, <<"additionalProperties", TRUE>> >>

\* a node of a scalar type
StringLeaf == << <<"type", "string">> >>

SingleSlots == {"items", "not"}
ListSlots == {"anyOf", "oneOf", "allOf"}
NamedSlots == {"properties", "$defs"}
Slots == SingleSlots \cup ListSlots \cup NamedSlots

NamesOf(slot) == IF slot = "properties" THEN PropNames ELSE DefNames

\* whether one more schema can go below the root of t under keyword slot
CanAttach(t, slot) ==
    /\ IsDict(t)
    /\ slot \in SingleSlots => ~Has(t, slot)
    /\ slot \in NamedSlots /\ Has(t, slot) => Len(Get(t, slot)) < Len(NamesOf(slot))

\* the schema t with the schema c added below its root under keyword slot
Attach(t, slot, c) ==
    IF slot \in SingleSlots THEN Put(t, slot, c)
    ELSE LET old == IF Has(t, slot) THEN Get(t, slot) ELSE <<>>
         IN  IF slot \in ListSlots
             THEN Put(t, slot, Append(old, c))
             ELSE Put(t, slot, Append(old, <<NamesOf(slot)[Len(old) + 1], c>>))

\* the schemas of weight at most n: a single node, or a schema of weight at
\* most n - k with a schema of weight at most k added below its root
RECURSIVE Schemas(_)
Schemas(n) ==
    IF n <= 0 THEN {}
    ELSE IF n = 1 THEN Leaves
    ELSE Leaves
         \cup { StaleObject, Put(<< <<"type", "object">> >>, "properties", <<>>),
                << <<"anyOf", <<>> >> >>, StringLeaf }
         \cup { Attach(x[2], x[3], x[4]) :
                  x \in { y \in UNION { {k} \X Schemas(n - k) \X Slots \X Schemas(k) :
                                          k \in 1..(n - 1) } :
                          CanAttach(y[2], y[3]) } }

-----------------------------------------------------------------------------
(* Calls of ensure_strict_schema.  The function rewrites the dict it is     *)
(* given in place and returns that same dict, so after a call the caller's  *)
(* object has the returned value.                                           *)

InitStrict ==
    /\ schema \in Schemas(MaxNodes)
    /\ given = schema
    /\ result = None
    /\ first = None
    /\ calls = 0
    /\ fault = None
    /\ BuildIdle
    /\ ClassifyIdle
    /\ AgentIdle
    /\ DescribeIdle
    /\ OutputIdle
    /\ SchemaIdle
    /\ LocateIdle

\* a variant that works on a copy and leaves the caller's object alone
CallStrictCopy ==
    /\ calls < 2
    /\ schema' = schema
    /\ result' = ensure_strict_schema(schema)
    /\ first' = IF calls = 0 THEN result' ELSE first
    /\ calls' = calls + 1
    /\ fault' = Fault(schema)
    /\ UNCHANGED given

\* result = ensure_strict_schema(schema), up to twice on the same object
CallStrict ==
    /\ calls < 2
    /\ schema' = ensure_strict_schema(schema)
    /\ result' = schema'
    /\ first' = IF calls = 0 THEN schema' ELSE first
    /\ calls' = calls + 1
    /\ fault' = Fault(schema)
    /\ UNCHANGED given

NextStrict == CallStrict /\ UNCHANGED <<buildVars, classifyVars, agentVars, describeVars, locateVars, schemaVars, outputVars>>

SpecStrict == InitStrict /\ [][NextStrict]_vars

\* a single call of ensure_strict_schema on each of the same schemas
CallStrictOnce == calls = 0 /\ CallStrict

NextStrictOnce ==
    CallStrictOnce /\ UNCHANGED <<buildVars, classifyVars, agentVars, describeVars, locateVars, schemaVars, outputVars>>

InitStrictOnce == InitStrict

SpecStrictOnce == InitStrictOnce /\ [][NextStrictOnce]_vars

-----------------------------------------------------------------------------
(* Properties of ensure_strict_schema *)

\* the schemas directly below the root of s, under any keyword
Children(s) ==
    IF ~IsDict(s) THEN {}
    ELSE UNION { IF s[i][1] \in SingleSlots THEN { s[i][2] }
                 ELSE IF s[i][1] \in ListSlots THEN { s[i][2][j] : j \in 1..Len(s[i][2]) }
                 ELSE IF s[i][1] \in NamedSlots THEN { s[i][2][j][2] : j \in 1..Len(s[i][2]) }
                 ELSE {}
                 : i \in 1..Len(s) }

\* every node of the schema document s, at any depth
RECURSIVE Nodes(_)
Nodes(s) == { s } \cup UNION { Nodes(c) : c \in Children(s) }

IsObject(s) == IsDict(s) /\ TypeIs(s, "object")

\* additionalProperties is false
Closed(s) == Has(s, "additionalProperties") /\ Get(s, "additionalProperties") = FALSE

\* required is exactly the given list of names
RequiredIs(s, names) == Has(s, "required") /\ Get(s, "required") = names

\* C1: ensure_strict_schema is idempotent: applying it to its own result
\* returns that result unchanged.
C1_Idempotent == calls = 2 => result = first

\* a second call was made on a schema that the first call had changed
C1_Witness == calls = 2 /\ first # given /\ Has(given, "required")

\* C2: a node of type object that declares properties has, after the call,
\* additionalProperties = false and required = its property names in their
\* order, whatever required and additionalProperties it had before.
C2_ObjectNode ==
    (calls >= 1 /\ IsObject(given) /\ Has(given, "properties"))
        => /\ Closed(result)
           /\ RequiredIs(result, Keys(Get(given, "properties")))
           /\ Keys(Get(result, "properties")) = Keys(Get(given, "properties"))

\* an object node with a property whose stale required list and
\* additionalProperties = true were replaced
C2_Witness ==
    /\ calls = 1 /\ IsObject(given) /\ Has(given, "properties")
    /\ Len(Get(given, "properties")) >= 1
    /\ Has(given, "required") /\ Get(given, "required") # Keys(Get(given, "properties"))
    /\ Has(given, "additionalProperties") /\ Get(given, "additionalProperties") = TRUE
    /\ Closed(result)

\* C3: after the call every object node of the whole document, at any depth
\* and under whatever keyword, has additionalProperties = false and lists
\* all its declared properties as required.
C3_EveryObjectNode ==
    calls >= 1 =>
        \A n \in Nodes(result) :
            IsObject(n) =>
                /\ Closed(n)
                /\ Has(n, "properties") => RequiredIs(n, Keys(Get(n, "properties")))

\* C4: a node of type array that declares items has its items strictified:
\* object-type items get additionalProperties = false and required = all of
\* the item's property names.
C4_ArrayItems ==
    (calls >= 1 /\ IsDict(given) /\ TypeIs(given, "array") /\ Has(given, "items"))
        => LET old == Get(given, "items")
               new == Get(result, "items")
           IN  /\ new = ensure_strict_schema(old)
               /\ IsObject(old) =>
                     /\ Closed(new)
                     /\ Has(old, "properties") =>
                           RequiredIs(new, Keys(Get(old, "properties")))

\* an array whose items are an object with a property
C4_Witness ==
    /\ calls = 1 /\ IsDict(given) /\ TypeIs(given, "array") /\ Has(given, "items")
    /\ IsObject(Get(given, "items")) /\ Has(Get(given, "items"), "properties")
    /\ Len(Get(Get(given, "items"), "properties")) >= 1
    /\ Closed(Get(result, "items"))

RECURSIVE Flatten(_)
Flatten(ss) == IF Len(ss) = 0 THEN <<>> ELSE ss[1] \o Flatten(Tail(ss))

DictValues(d) == AsList([i \in 1..Len(d) |-> d[i][2]])

\* the sub-schemas directly below the root of s, under any keyword, in order
SubSchemas(s) ==
    IF ~IsDict(s) THEN <<>>
    ELSE Flatten(AsList([i \in 1..Len(s) |->
             IF s[i][1] \in SingleSlots THEN << s[i][2] >>
             ELSE IF s[i][1] \in ListSlots THEN s[i][2]
             ELSE IF s[i][1] \in NamedSlots THEN DictValues(s[i][2])
             ELSE <<>>]))

\* the sub-schemas the call on s calls itself on, in order
Visited(s) ==
    IF ~IsDict(s) THEN <<>>
    ELSE (IF TypeIs(s, "object")
          THEN IF Has(s, "properties") THEN DictValues(Get(s, "properties")) ELSE <<>>
          ELSE IF TypeIs(s, "array") /\ Has(s, "items") THEN << Get(s, "items") >>
          ELSE <<>>)
         \o Flatten(AsList([n \in 1..Len(UnionKeys) |->
                 IF Has(s, UnionKeys[n]) THEN Get(s, UnionKeys[n]) ELSE <<>>]))
         \o (IF Has(s, "$defs") THEN DictValues(Get(s, "$defs")) ELSE <<>>)

\* the number of schemas in the tree s, and in the trees of the list ss
RECURSIVE Size(_), SizeAll(_)
Size(s) == 1 + SizeAll(SubSchemas(s))
SizeAll(ss) == IF Len(ss) = 0 THEN 0 ELSE Size(ss[1]) + SizeAll(Tail(ss))

\* the number of calls of ensure_strict_schema that a call on s amounts to
RECURSIVE Invocations(_), InvocationsAll(_)
Invocations(s) == 1 + InvocationsAll(Visited(s))
InvocationsAll(ss) ==
    IF Len(ss) = 0 THEN 0 ELSE Invocations(ss[1]) + InvocationsAll(Tail(ss))

\* C20: on every schema tree a call of ensure_strict_schema raises nothing
\* and ends after at most one call of itself per schema of the tree.
C20_Terminates ==
    /\ calls >= 1 => fault = None
    /\ calls = 1 => Invocations(given) <= Size(given)

\* a call on a union of a boolean schema and a node without a type
C20_Witness ==
    /\ calls = 1
    /\ given = << <<"anyOf", << JTrue, <<>> >> >> >>
    /\ fault = None
    /\ Invocations(given) = Size(given)

\* new is what strictifying old gives, with the marks of it on an object node
Strictified(old, new) ==
    /\ new = ensure_strict_schema(old)
    /\ IsObject(old) =>
         /\ Closed(new)
         /\ Has(old, "properties") => RequiredIs(new, Keys(Get(old, "properties")))

\* C24: every rule that matches a node is applied to it: every member of an
\* anyOf, oneOf or allOf of the node and every schema under its $defs is
\* strictified, and so is the node itself when it has type object, and its
\* items when it has type array.
C24_AllRules ==
    (calls >= 1 /\ IsDict(given)) =>
        /\ \A n \in 1..Len(UnionKeys) :
             Has(given, UnionKeys[n]) =>
                 LET old == Get(given, UnionKeys[n])
                     new == Get(result, UnionKeys[n])
                 IN  /\ Len(new) = Len(old)
                     /\ \A j \in 1..Len(old) : Strictified(old[j], new[j])
        /\ Has(given, "$defs") =>
             LET old == Get(given, "$defs")
                 new == Get(result, "$defs")
             IN  /\ Keys(new) = Keys(old)
                 /\ \A j \in 1..Len(old) : Strictified(old[j][2], new[j][2])
        /\ IsObject(given) => Strictified(given, result)
        /\ (TypeIs(given, "array") /\ Has(given, "items")) =>
             Strictified(Get(given, "items"), Get(result, "items"))

\* an object node with an anyOf whose member is an object node: both were closed
C24_Witness ==
    /\ calls = 1
    /\ IsObject(given) /\ Has(given, "anyOf")
    /\ Len(Get(given, "anyOf")) >= 1
    /\ IsObject(Get(given, "anyOf")[1])
    /\ Closed(result)
    /\ Closed(Get(result, "anyOf")[1])

\* C25 as stated: the result for a node of type object without a properties
\* key has additionalProperties = false and has no required key.
C25_NoRequired ==
    (calls >= 1 /\ IsObject(given) /\ ~Has(given, "properties"))
        => Closed(result) /\ ~Has(result, "required")

\* C25, amended: the result for a node of type object without a properties
\* key has additionalProperties = false, and its required key is as it was:
\* none is added, and one that the node had stays, with its list.
C25_RequiredKept ==
    (calls >= 1 /\ IsObject(given) /\ ~Has(given, "properties"))
        => /\ Closed(result)
           /\ ~Has(result, "properties")
           /\ Has(result, "required") <=> Has(given, "required")
           /\ Has(given, "required") => Get(result, "required") = Get(given, "required")

\* an object node without properties that came with a required list
C25_Witness ==
    /\ calls = 1
    /\ given = StaleObject
    /\ Closed(result)
    /\ RequiredIs(result, <<"z">>)

\* no rule of the function matches the node
Unmatched(s) ==
    \/ ~IsDict(s)
    \/ /\ ~TypeIs(s, "object")
       /\ ~(TypeIs(s, "array") /\ Has(s, "items"))
       /\ \A n \in 1..Len(UnionKeys) : ~Has(s, UnionKeys[n])
       /\ ~Has(s, "$defs")

\* the schema without the additionalProperties and required keys of its
\* object-type nodes, at every depth and under every keyword
RECURSIVE Erased(_)
Erased(s) ==
    IF ~IsDict(s) THEN s
    ELSE LET kept == IF TypeIs(s, "object")
                     THEN SelectSeq(s, LAMBDA p : p[1] \notin {"additionalProperties", "required"})
                     ELSE s
         IN  AsList([i \in 1..Len(kept) |->
                 <<kept[i][1],
                   IF kept[i][1] \in SingleSlots THEN Erased(kept[i][2])
                   ELSE IF kept[i][1] \in ListSlots
                   THEN AsList([j \in 1..Len(kept[i][2]) |-> Erased(kept[i][2][j])])
                   ELSE IF kept[i][1] \in NamedSlots
                   THEN AsList([j \in 1..Len(kept[i][2]) |->
                                   <<kept[i][2][j][1], Erased(kept[i][2][j][2])>>])
                   ELSE kept[i][2]>>])

\* C26: the function changes nothing but the additionalProperties and
\* required keys of object-type nodes: a node that no rule matches comes back
\* equal to the input, and in every schema all other keys and values, the
\* property names and the union members are the same, in the same order.
C26_Frame ==
    calls >= 1 =>
        /\ Unmatched(given) => result = given
        /\ Erased(result) = Erased(given)

\* an object node with a union of two different members was changed
C26_Witness ==
    /\ calls = 1
    /\ result # given
    /\ Has(given, "anyOf")
    /\ Len(Get(given, "anyOf")) = 2
    /\ Get(given, "anyOf")[1] # Get(given, "anyOf")[2]
    /\ Erased(result) = Erased(given)

-----------------------------------------------------------------------------
(* models/requests.py: CurrentWeatherParameters and CurrentWeatherRequest *)

\* Three of the 47 declared flags of CurrentWeatherParameters, in their
\* declaration order (the first, the eleventh and the last).
ParamNames == <<"temperature_2m", "wind_speed_10m", "is_day">>

\* CurrentWeatherParameters(**kw): the instance's __dict__.  The fields are
\* validated and stored in declaration order; a flag that is not supplied
\* takes its default False.
CurrentWeatherParameters(kw) ==
    AsList([i \in 1..Len(ParamNames) |->
              <<ParamNames[i],
                IF Has(kw, ParamNames[i]) THEN Get(kw, ParamNames[i]) ELSE Some(FALSE)>>])

\* a variant that stores the flags in the order they were supplied
ParametersAsSupplied(kw) ==
    kw \o SelectSeq(CurrentWeatherParameters(kw), LAMBDA p : ~Has(kw, p[1]))

\* a variant that selects every flag that is not False
SelectedNotFalse(self) == Keys(SelectSeq(self, LAMBDA p : p[2] # Some(FALSE)))

\* [name for name, value in self.__dict__.items() if value is True]
get_selected_parameters(self) == Keys(SelectSeq(self, LAMBDA p : p[2] = Some(TRUE)))

\* The model_fields of the two classes: the fields in declaration order, each
\* with the description its Field(...) declares.

\* CurrentWeatherParameters.model_fields, for the three flags of ParamNames
ParameterFields ==
    << <<"temperature_2m", Some("Air temperature at 2 meters above ground")>>,
       <<"wind_speed_10m",
         Some("Wind speed at 10 meters above ground. Wind speed on 10 meters is the standard level")>>,
       <<"is_day", Some("1 if the current time step has daylight, 0 at night")>> >>

\* CurrentWeatherRequest.model_fields
RequestFields ==
    <<
       <<"latitude",
         Some("Geographical WGS84 coordinate of the location (latitude). Multiple coordinates can be comma separated.")>>,
       <<"longitude",
         Some("Geographical WGS84 coordinate of the location (longitude). Multiple coordinates can be comma separated.")>>,
       <<"elevation",
         Some("The elevation used for statistical downscaling. Per default, a 90 meter digital elevation model is used. You can manually set the elevation to correctly match mountain peaks. If elevation=nan is specified, downscaling will be disabled and the API uses the average grid-cell height. For multiple locations, elevation can also be comma separated.")>>,
       <<"current",
         Some("A list of weather variables to get current conditions.")>>,
       <<"temperature_unit",
         Some("If fahrenheit is set, all temperature values are converted to Fahrenheit.")>>,
       <<"wind_speed_unit",
         Some("Wind speed units: kmh (default), ms, mph and kn")>>,
       <<"precipitation_unit",
         Some("Precipitation amount units: mm (default) or inch")>>,
       <<"timeformat",
         Some("If format unixtime is selected, all time values are returned in UNIX epoch time in seconds. Please note that all timestamp are in GMT+0! For daily values with unix timestamps, please apply utc_offset_seconds again to get the correct date.")>>,
       <<"timezone",
         Some("If timezone is set, all timestamps are returned as local-time and data is returned starting at 00:00 local-time. Any time zone name from the time zone database is supported. If auto is set as a time zone, the coordinates will be automatically resolved to the local time zone. For multiple coordinates, a comma separated list of timezones can be specified.")>>,
       <<"models",
         Some("Manually select one or more weather models. Per default, the best suitable weather models will be combined.")>>,
       <<"cell_selection",
         Some("Set a preference how grid-cells are selected. The default land finds a suitable grid-cell on land with similar elevation to the requested coordinates using a 90-meter digital elevation model. sea prefers grid-cells on sea. nearest selects the nearest possible grid-cell.")>> >>

-----------------------------------------------------------------------------
(* utils/request_utils.py: build_weather_params *)

\* sep.join(list)
RECURSIVE Join(_, _)
Join(list, sep) ==
    IF Len(list) = 0 THEN ""
    ELSE IF Len(list) = 1 THEN list[1]
    ELSE list[1] \o sep \o Join(Tail(list), sep)

\* a variant that swaps the two coordinates
CoordinatesSwapped(r) ==
    << <<"latitude", r.longitude>>, <<"longitude", r.latitude>> >>

\* "latitude": request.latitude, "longitude": request.longitude
CoordinatesPart(r) ==
    << <<"latitude", r.latitude>>, <<"longitude", r.longitude>> >>

\* a variant that tests the elevation for truth: {} if not request.elevation
ElevationIfTruthy(r) ==
    IF r.elevation = None \/ r.elevation = Some(0) THEN <<>>
    ELSE << <<"elevation", r.elevation>> >>

\* {} if request.elevation is None else {"elevation": request.elevation}
ElevationPart(r) ==
    IF r.elevation = None THEN <<>> ELSE << <<"elevation", r.elevation>> >>

\* {} if request.current is None or not request.current.get_selected_parameters()
\* else {"current": ",".join(request.current.get_selected_parameters())}
CurrentPart(r) ==
    IF r.current = None \/ get_selected_parameters(r.current[1]) = <<>> THEN <<>>
    ELSE << <<"current", Join(get_selected_parameters(r.current[1]), ",")>> >>

\* a variant that compares every field with the default of temperature_unit
FieldPartOneDefault(r, field, default) ==
    IF r[field] = Some("celsius") THEN <<>> ELSE << <<field, r[field]>> >>

\* {} if request.<field> == <default> else {"<field>": request.<field>}
FieldPart(r, field, default) ==
    IF r[field] = Some(default) THEN <<>> ELSE << <<field, r[field]>> >>

\* a variant that leaves models out whenever the placeholder occurs in the list
ModelsUnlessPlaceholderIn(r) ==
    IF r.models = None \/ r.models = Some(<<>>)
       \/ \E i \in 1..Len(r.models[1]) : r.models[1][i] = "string"
    THEN <<>>
    ELSE << <<"models", Join(r.models[1], ",")>> >>

\* {} if request.models is None or request.models == ["string"] or not request.models
\* else {"models": ",".join(request.models)}
ModelsPart(r) ==
    IF r.models = None \/ r.models = Some(<<"string">>) \/ r.models = Some(<<>>)
    THEN <<>>
    ELSE << <<"models", Join(r.models[1], ",")>> >>

\* the dict literal of build_weather_params, its entries in the order written
build_weather_params(r) ==
    CoordinatesPart(r)
    \o ElevationPart(r)
    \o CurrentPart(r)
    \o FieldPart(r, "temperature_unit", "celsius")
    \o FieldPart(r, "wind_speed_unit", "kmh")
    \o FieldPart(r, "precipitation_unit", "mm")
    \o FieldPart(r, "timeformat", "iso8601")
    \o FieldPart(r, "timezone", "GMT")
    \o ModelsPart(r)
    \o FieldPart(r, "cell_selection", "land")

-----------------------------------------------------------------------------
(* The requests given to build_weather_params: valid CurrentWeatherRequest  *)
(* objects.  Coordinates and elevation are floats, modelled by integers.     *)

MaxSupplied == 2

FlagValues == { Some(TRUE), Some(FALSE), None }

\* the keyword arguments of CurrentWeatherParameters: at most n flags, in any order
RECURSIVE Supplied(_)
Supplied(n) ==
    IF n = 0 THEN { <<>> }
    ELSE Supplied(n - 1)
         \cup { Append(x[1], <<x[2], x[3]>>) :
                  x \in { y \in Supplied(n - 1) \X { ParamNames[i] : i \in 1..Len(ParamNames) }
                                 \X FlagValues :
                          Len(y[1]) = n - 1 /\ ~Has(y[1], y[2]) } }

Requests(cur) ==
    [ latitude : { 0, 37 },
      longitude : { 0, -122 },
      elevation : { None, Some(0), Some(100) },
      current : { cur },
      temperature_unit : { Some("celsius"), Some("fahrenheit"), None },
      wind_speed_unit : { Some("kmh"), Some("mph") },
      precipitation_unit : { Some("mm"), Some("inch") },
      timeformat : { Some("iso8601"), Some("unixtime") },
      timezone : { Some("GMT"), Some("auto") },
      models : { None, Some(<<>>), Some(<<"string">>), Some(<<"gfs", "string">>) },
      cell_selection : { Some("land"), Some("sea") } ]

\* a request without a parameter set, or with one constructed from some flags
InitBuild ==
    /\ kwargs \in { None } \cup { Some(kw) : kw \in Supplied(MaxSupplied) }
    /\ request \in Requests(IF kwargs = None THEN None
                             ELSE Some(CurrentWeatherParameters(kwargs[1])))
    /\ params = None
    /\ built = FALSE
    /\ StrictIdle
    /\ ClassifyIdle
    /\ AgentIdle
    /\ DescribeIdle
    /\ OutputIdle
    /\ SchemaIdle
    /\ LocateIdle

\* params = build_weather_params(request)
CallBuild ==
    /\ ~built
    /\ params' = build_weather_params(request)
    /\ built' = TRUE
    /\ UNCHANGED <<kwargs, request>>

NextBuild == CallBuild /\ UNCHANGED <<locateVars, describeVars, strictVars, classifyVars, agentVars, schemaVars, outputVars>>

SpecBuild == InitBuild /\ [][NextBuild]_vars

-----------------------------------------------------------------------------
(* Properties of build_weather_params *)

\* the names of the flags that were supplied as true
TrueFlags ==
    IF kwargs = None THEN {}
    ELSE { kwargs[1][i][1] : i \in { j \in 1..Len(kwargs[1]) : kwargs[1][j][2] = Some(TRUE) } }

\* C5: the result has the key current exactly when the request has a
\* parameter set with a true flag; its value is the names of exactly the true
\* flags, comma-joined in declaration order, whatever the order of supply.
C5_Current ==
    built =>
        /\ Has(params, "current") <=> TrueFlags # {}
        /\ Has(params, "current") =>
              Get(params, "current")
                  = Join(SelectSeq(ParamNames, LAMBDA n : n \in TrueFlags), ",")

\* two true flags supplied against the declaration order, a third one not true
C5_Witness ==
    /\ built /\ kwargs # None /\ Len(kwargs[1]) = 2
    /\ kwargs[1][1] = <<"is_day", Some(TRUE)>>
    /\ kwargs[1][2] = <<"temperature_2m", Some(TRUE)>>
    /\ Has(params, "current") /\ Get(params, "current") = "temperature_2m,is_day"

\* the unit and format fields with their defaults
FieldDefaults ==
    << <<"temperature_unit", "celsius">>, <<"wind_speed_unit", "kmh">>,
       <<"precipitation_unit", "mm">>, <<"timeformat", "iso8601">>,
       <<"timezone", "GMT">>, <<"cell_selection", "land">> >>

\* C6: each unit or format field is in the result exactly when the request's
\* value differs from that field's own default, and then with that value.
C6_FieldDefaults ==
    built =>
        \A i \in 1..Len(FieldDefaults) :
            LET f == FieldDefaults[i][1]
                d == FieldDefaults[i][2]
            IN  /\ Has(params, f) <=> request[f] # Some(d)
                /\ Has(params, f) => Get(params, f) = request[f]

\* one field differs from its default and is included, another has its own
\* default and is left out
C6_Witness ==
    /\ built
    /\ request.temperature_unit = Some("fahrenheit")
    /\ request.wind_speed_unit = Some("kmh")
    /\ request.cell_selection = Some("sea")
    /\ Has(params, "temperature_unit") /\ ~Has(params, "wind_speed_unit")
    /\ Get(params, "cell_selection") = Some("sea")

\* C30: no key of the result maps to None, also for a request whose optional
\* unit, format, timezone or cell-selection fields are None: a field without
\* a value is left out.  (The values of latitude, longitude, current and
\* models are numbers and joined strings, never None.)
C30_NoNull ==
    built =>
        /\ Has(params, "elevation") => Get(params, "elevation") # None
        /\ \A i \in 1..Len(FieldDefaults) :
             Has(params, FieldDefaults[i][1]) => Get(params, FieldDefaults[i][1]) # None

\* C7: elevation is left out when the request has none and is otherwise
\* included with the request's value, the value 0 too.
C7_Elevation ==
    built =>
        /\ request.elevation = None => ~Has(params, "elevation")
        /\ request.elevation # None =>
              Has(params, "elevation") /\ Get(params, "elevation") = request.elevation

\* a request with elevation 0, which is included
C7_Witness ==
    built /\ request.elevation = Some(0) /\ Has(params, "elevation")

\* C8: the result always has latitude and longitude with the request's values.
C8_Coordinates ==
    built =>
        /\ Has(params, "latitude") /\ Get(params, "latitude") = request.latitude
        /\ Has(params, "longitude") /\ Get(params, "longitude") = request.longitude

\* different coordinates, in a request with other fields set
C8_Witness ==
    /\ built /\ request.latitude = 37 /\ request.longitude = -122
    /\ request.current # None /\ request.elevation # None
    /\ Get(params, "latitude") = 37 /\ Get(params, "longitude") = -122

\* C9: models is in the result exactly when the request's list is not null,
\* not empty and not the placeholder ["string"]; its value is the members
\* comma-joined in list order.
C9_Models ==
    built =>
        /\ Has(params, "models") <=>
              /\ request.models # None
              /\ Len(request.models[1]) > 0
              /\ request.models[1] # <<"string">>
        /\ Has(params, "models") => Get(params, "models") = Join(request.models[1], ",")

\* a list that holds the placeholder beside another member is included
C9_Witness ==
    /\ built /\ request.models = Some(<<"gfs", "string">>)
    /\ Has(params, "models") /\ Get(params, "models") = "gfs,string"

-----------------------------------------------------------------------------
(* utils/json_utils.py: load_json *)

\* An operation either returns a value or raises an exception of some class.
Ok(v) == <<"ok", v>>
Raise(e) == <<"raise", e>>
Raised(o) == o[1] = "raise"

\* a JSON document that is a list, not an object
JList == << <<"$list", TRUE>> >>

\* What a file can be: absent, unreadable, not JSON, or a JSON document.
Missing == <<"missing">>
Unreadable == <<"unreadable">>
NotJson == <<"invalid">>
JsonFile(v) == <<"json", v>>

\* load_json: FileNotFoundError is raised again; for a JSONDecodeError the
\* handler builds json.JSONDecodeError with one argument, which raises
\* TypeError; any other error is raised again as Exception.
load_json(file) ==
    IF file = Missing THEN Raise("FileNotFoundError")
    ELSE IF file = NotJson THEN Raise("TypeError")
    ELSE IF file = Unreadable THEN Raise("Exception")
    ELSE Ok(file[2])

-----------------------------------------------------------------------------
(* agents/simple_agent.py: classify_weather_query *)

\* The exception classes that occur; every one is a subclass of Exception.
ExceptionClasses ==
    { "Exception", "FileNotFoundError", "TypeError", "KeyError", "AttributeError",
      "JSONDecodeError", "APIConnectionError", "APITimeoutError", "RateLimitError" }

\* d[k] for a loaded JSON document d
Subscript(d, k) ==
    IF ~(IsDict(d) /\ ~Has(d, "$list")) THEN Raise("TypeError")
    ELSE IF Has(d, k) THEN Ok(Get(d, k))
    ELSE Raise("KeyError")

\* d[k1][k2]
Subscript2(d, k1, k2) ==
    LET o == Subscript(d, k1) IN IF Raised(o) THEN o ELSE Subscript(o[2], k2)

\* the first failure of a sequence of outcomes, or the last outcome
RECURSIVE FirstFailure(_)
FirstFailure(os) ==
    IF Len(os) = 1 \/ Raised(os[1]) THEN os[1] ELSE FirstFailure(Tail(os))

\* JSON values: <<"object", dict>>, <<"array">>, <<"string", s>>, <<"bool", b>>, <<"null">>
JFalse == <<"bool", FALSE>>
JTrueValue == <<"bool", TRUE>>

\* content.strip()
strip(c) ==
    IF c = " {\"is_weather_query\": true}\n" THEN "{\"is_weather_query\": true}" ELSE c

\* json.loads on the response contents of the model
json_loads(c) ==
    CASE c = "{\"is_weather_query\": true}" -> Ok(<<"object", << <<"is_weather_query", JTrueValue>> >> >>)
      [] c = "{\"is_weather_query\": false}" -> Ok(<<"object", << <<"is_weather_query", JFalse>> >> >>)
      [] c = "{\"is_weather_query\": \"yes\"}" ->
            Ok(<<"object", << <<"is_weather_query", <<"string", "yes">> >> >> >>)
      [] c = "{\"is_weather_query\": null}" -> Ok(<<"object", << <<"is_weather_query", <<"null">> >> >> >>)
      [] c = "{}" -> Ok(<<"object", <<>> >>)
      [] c = "{\"answer\": true}" -> Ok(<<"object", << <<"answer", JTrueValue>> >> >>)
      [] c = "{\"temperature_2m\": true}" ->
            Ok(<<"object", << <<"temperature_2m", JTrueValue>> >> >>)
      [] c = "{\"is_day\": true, \"temperature_2m\": null, \"soil\": true}" ->
            Ok(<<"object", << <<"is_day", JTrueValue>>, <<"temperature_2m", <<"null">> >>,
                              <<"soil", JTrueValue>> >> >>)
      [] c = "{\"is_day\": \"maybe\"}" ->
            Ok(<<"object", << <<"is_day", <<"string", "maybe">> >> >> >>)
      [] c = "{\"temperature_unit\": \"fahrenheit\"}" ->
            Ok(<<"object", << <<"temperature_unit", <<"string", "fahrenheit">> >> >> >>)
      [] c = "{\"temperature_unit\": \"kelvin\"}" ->
            Ok(<<"object", << <<"temperature_unit", <<"string", "kelvin">> >> >> >>)
      [] c = "{\"temperature_unit\": null, \"latitude\": \"north\"}" ->
            Ok(<<"object", << <<"temperature_unit", <<"null">> >>,
                              <<"latitude", <<"string", "north">> >> >> >>)
      [] c = "{\"current\": {\"is_day\": true}, \"latitude\": 99, \"timezone\": \"auto\", \"wind_speed_unit\": \"mph\"}" ->
            Ok(<<"object", << <<"current", <<"object", << <<"is_day", JTrueValue>> >> >> >>,
                              <<"latitude", <<"number", 99>> >>,
                              <<"timezone", <<"string", "auto">> >>,
                              <<"wind_speed_unit", <<"string", "mph">> >> >> >>)
      [] c = "{\"timezone\": null, \"elevation\": 100, \"cell_selection\": \"nowhere\"}" ->
            Ok(<<"object", << <<"timezone", <<"null">> >>,
                              <<"elevation", <<"number", 100>> >>,
                              <<"cell_selection", <<"string", "nowhere">> >> >> >>)
      [] c = "[true]" -> Ok(<<"array">>)
      [] c = "[]" -> Ok(<<"array">>)
      [] c = "true" -> Ok(JTrueValue)
      [] c = "null" -> Ok(<<"null">>)
      [] OTHER -> Raise("JSONDecodeError")

\* result.get("is_weather_query", False)
get_is_weather_query(v) ==
    IF v[1] # "object" THEN Raise("AttributeError")
    ELSE IF Has(v[2], "is_weather_query") THEN Ok(Get(v[2], "is_weather_query"))
    ELSE Ok(JFalse)

\* json.loads(response.choices[0].message.content.strip()) and the lookup;
\* content is None when the message has none
parse_response(content) ==
    IF content = None THEN Raise("AttributeError")
    ELSE LET o == json_loads(strip(content[1]))
         IN  IF Raised(o) THEN o ELSE get_is_weather_query(o[2])

\* a variant of the handler that catches decoding errors only
CaughtDecodeErrorsOnly(e) == e \in { "JSONDecodeError" }

\* except Exception
Caught(e) == e \in ExceptionClasses

\* an outcome o of a statement inside the try block: go on at pc next with
\* the locals updated, or leave for the handler
Continue(o, next) ==
    IF Raised(o)
    THEN /\ exc' = Some(o[2])
         /\ cpc' = "except"
    ELSE /\ cpc' = next
         /\ UNCHANGED exc

\* prompts = load_json("prompts/prompts.json")
ClassifyLoadPrompts ==
    /\ cpc = "start"
    /\ LET o == load_json(promptsFile)
       IN  /\ Continue(o, "prompts_loaded")
           /\ prompts' = IF Raised(o) THEN prompts ELSE o[2]
    /\ UNCHANGED <<promptsFile, configFile, llm, config, ret>>

\* config = load_json("configs/config.json")
ClassifyLoadConfig ==
    /\ cpc = "prompts_loaded"
    /\ LET o == load_json(configFile)
       IN  /\ Continue(o, "config_loaded")
           /\ config' = IF Raised(o) THEN config ELSE o[2]
    /\ UNCHANGED <<promptsFile, configFile, llm, prompts, ret>>

\* openai_config = config["openai"]["weather_classification"]
openai_config == Subscript2(config, "openai", "weather_classification")

\* the lookups before the call: openai_config, the system prompt, and the
\* keys of openai_config that the log line and the call's arguments read
Lookups ==
    IF Raised(openai_config) THEN openai_config
    ELSE FirstFailure(<< Subscript2(prompts, "weather_classification", "system"),
                         Subscript(openai_config[2], "model"),
                         Subscript(openai_config[2], "max_tokens"),
                         Subscript(openai_config[2], "temperature"),
                         Subscript(openai_config[2], "response_format") >>)

\* the lookups and response = client.chat.completions.create(...)
ClassifyCall ==
    /\ cpc = "config_loaded"
    /\ Continue(IF Raised(Lookups) THEN Lookups ELSE llm, "called")
    /\ UNCHANGED <<promptsFile, configFile, llm, prompts, config, ret>>

\* parse the response and return is_weather_query
ClassifyParse ==
    /\ cpc = "called"
    /\ LET o == parse_response(llm[2])
       IN  /\ Continue(o, "returned")
           /\ ret' = IF Raised(o) THEN ret ELSE Some(o[2])
    /\ UNCHANGED <<promptsFile, configFile, llm, prompts, config>>

\* except Exception as e: return False; another exception leaves the function
ClassifyExcept ==
    /\ cpc = "except"
    /\ IF Caught(exc[1])
       THEN cpc' = "returned" /\ ret' = Some(JFalse)
       ELSE cpc' = "raised" /\ UNCHANGED ret
    /\ UNCHANGED <<promptsFile, configFile, llm, prompts, config, exc>>

-----------------------------------------------------------------------------
(* The surroundings of classify_weather_query: the two files and the chat   *)
(* completion, which is a black box that raises or returns some content.    *)

GoodPrompts == << <<"weather_classification", << <<"system", "prompt">> >> >> >>

GoodOpenAIConfig ==
    << <<"model", "gpt">>, <<"max_tokens", 100>>, <<"temperature", 0>>,
       <<"response_format", "json_object">> >>

ConfigWith(c) == << <<"openai", << <<"weather_classification", c>> >> >> >>

GoodPromptFiles == { JsonFile(GoodPrompts) }

PromptFiles ==
    GoodPromptFiles
    \cup { Missing, NotJson, Unreadable, JsonFile(JList), JsonFile(<<>>),
           JsonFile(<< <<"weather_classification", <<>> >> >>) }

GoodConfigFiles == { JsonFile(ConfigWith(GoodOpenAIConfig)) }

ConfigFiles ==
    GoodConfigFiles
    \cup { Missing, NotJson, Unreadable, JsonFile(JList), JsonFile(<<>>),
           JsonFile(<< <<"openai", <<>> >> >>),
           JsonFile(ConfigWith(SubSeq(GoodOpenAIConfig, 2, 4))),
           JsonFile(ConfigWith(SubSeq(GoodOpenAIConfig, 1, 3))) }

\* contents that are JSON objects
ObjectContents ==
    { Some("{\"is_weather_query\": true}"), Some(" {\"is_weather_query\": true}\n"),
      Some("{\"is_weather_query\": false}"), Some("{\"is_weather_query\": \"yes\"}"),
      Some("{\"is_weather_query\": null}"), Some("{}"), Some("{\"answer\": true}") }

Contents ==
    ObjectContents
    \cup { None, Some("invalid json"), Some(""), Some("[true]"), Some("true"), Some("null") }

LLMOutcomes ==
    { Raise(e) : e \in { "APIConnectionError", "APITimeoutError", "RateLimitError" } }
    \cup { Ok(c) : c \in Contents }

InitClassify ==
    /\ promptsFile \in PromptFiles
    /\ configFile \in ConfigFiles
    /\ llm \in LLMOutcomes
    /\ cpc = "start"
    /\ prompts = None
    /\ config = None
    /\ exc = None
    /\ ret = None
    /\ StrictIdle
    /\ BuildIdle
    /\ AgentIdle
    /\ DescribeIdle
    /\ OutputIdle
    /\ SchemaIdle
    /\ LocateIdle

NextClassify ==
    \/ ClassifyLoadPrompts /\ UNCHANGED <<locateVars, describeVars, strictVars, buildVars, agentVars, schemaVars, outputVars>>
    \/ ClassifyLoadConfig /\ UNCHANGED <<locateVars, describeVars, strictVars, buildVars, agentVars, schemaVars, outputVars>>
    \/ ClassifyCall /\ UNCHANGED <<locateVars, describeVars, strictVars, buildVars, agentVars, schemaVars, outputVars>>
    \/ ClassifyParse /\ UNCHANGED <<locateVars, describeVars, strictVars, buildVars, agentVars, schemaVars, outputVars>>
    \/ ClassifyExcept /\ UNCHANGED <<locateVars, describeVars, strictVars, buildVars, agentVars, schemaVars, outputVars>>

SpecClassify == InitClassify /\ [][NextClassify]_vars

-----------------------------------------------------------------------------
(* Properties of classify_weather_query *)

\* something fails inside the function: a file cannot be loaded or lacks a
\* key, the completion raises, or its content is not a JSON object
SomethingFails ==
    \/ promptsFile \notin GoodPromptFiles
    \/ configFile \notin GoodConfigFiles
    \/ Raised(llm)
    \/ llm[2] \notin ObjectContents

\* C10: classify_weather_query is fail-closed: whatever fails inside it, it
\* raises nothing to its caller and returns false.
C10_FailClosed ==
    /\ cpc # "raised"
    /\ cpc = "except" => exc # None
    /\ (cpc = "returned" /\ SomethingFails) => (exc # None /\ ret = Some(JFalse))

\* the content was JSON but not an object, and false was returned
C10_Witness ==
    /\ cpc = "returned" /\ llm = Ok(Some("[true]"))
    /\ exc = Some("AttributeError") /\ ret = Some(JFalse)

\* the content parses to a JSON object whose is_weather_query is true
ContentSaysTrue ==
    /\ ~Raised(llm)
    /\ llm[2] # None
    /\ json_loads(strip(llm[2][1])) = Ok(<<"object", << <<"is_weather_query", JTrueValue>> >> >>)

\* C11: whatever content the completion returns, classify_weather_query
\* returns a boolean, and it returns true exactly when the content parses to
\* an object whose is_weather_query is true.
C11_Boolean ==
    (/\ cpc = "returned"
     /\ promptsFile \in GoodPromptFiles /\ configFile \in GoodConfigFiles
     /\ ~Raised(llm))
        => /\ ret \in { Some(JTrueValue), Some(JFalse) }
           /\ ret = Some(JTrueValue) <=> ContentSaysTrue

-----------------------------------------------------------------------------
(* Exceptions with their text, for the functions that pass the text on.     *)
(* An exception is <<class, text>>; an HTTPException is                      *)
(* <<"HTTPException", detail, status_code>>.                                 *)

\* the decimal text of a status code
StatusText(code) == IF code = 500 THEN "500" ELSE "200"

\* HTTPException(status_code=500, detail=detail)
HTTPException(detail) == <<"HTTPException", detail, 500>>

\* str(e): starlette's HTTPException prints as "status: detail", any other
\* exception as its text
str(e) == IF e[1] = "HTTPException" THEN StatusText(e[3]) \o ": " \o e[2] ELSE e[2]

\* the text of an exception the interpreter or a library raises, which the
\* code does not choose: represented by the class name in brackets
LibraryText(cls) == "<" \o cls \o ">"

\* an outcome whose exception is known by its class only, with its text
WithText(o) == IF Raised(o) THEN Raise(<<o[2], LibraryText(o[2])>>) ELSE o

\* the exceptions of the OpenAI client
ClientErrors == { <<"APIConnectionError", "Connection error.">>,
                  <<"RateLimitError", "Error code: 429">> }

\* what a chat completion can do: raise, or return a message with some content
Completions(contents) ==
    { Raise(e) : e \in ClientErrors } \cup { Ok(c) : c \in contents }

\* response.choices[0].message.content.strip(), for content None or a string
stripped(content) ==
    IF content = None THEN Raise(<<"AttributeError", LibraryText("AttributeError")>>)
    ELSE Ok(strip(content[1]))

\* json.loads(response.choices[0].message.content.strip())
loads_content(content) ==
    LET s == stripped(content)
    IN  IF Raised(s) THEN s ELSE WithText(json_loads(s[2]))

-----------------------------------------------------------------------------
(* models/requests.py: validation, as pydantic does it *)

\* Optional[bool]: a boolean, null, the numbers 0 and 1, or a string that
\* spells a boolean
ValidateFlag(v) ==
    IF v[1] = "bool" THEN Ok(Some(v[2]))
    ELSE IF v[1] = "number" /\ v[2] \in { 0, 1 } THEN Ok(Some(v[2] = 1))
    ELSE IF v[1] = "null" THEN Ok(None)
    ELSE IF v[1] = "string" /\ v[2] \in { "true", "yes", "on", "1" } THEN Ok(Some(TRUE))
    ELSE IF v[1] = "string" /\ v[2] \in { "false", "no", "off", "0" } THEN Ok(Some(FALSE))
    ELSE Raise(<<"ValidationError", LibraryText("ValidationError")>>)

\* the declared flags among the keys of the object d, validated, in the
\* order they were supplied
ValidFlags(d) ==
    LET known == SelectSeq(d, LAMBDA p : \E i \in 1..Len(ParamNames) : ParamNames[i] = p[1])
    IN  AsList([i \in 1..Len(known) |-> <<known[i][1], ValidateFlag(known[i][2])>>])

\* CurrentWeatherParameters(**param_data): ** needs a mapping, every flag
\* must validate, keys that are not declared are ignored
NewParameters(param_data) ==
    IF param_data[1] # "object" THEN Raise(<<"TypeError", LibraryText("TypeError")>>)
    ELSE LET flags == ValidFlags(param_data[2])
         IN  IF \E i \in 1..Len(flags) : Raised(flags[i][2])
             THEN Raise(<<"ValidationError", LibraryText("ValidationError")>>)
             ELSE Ok(AsList([i \in 1..Len(flags) |-> <<flags[i][1], flags[i][2][2]>>]))

TemperatureUnits == { "celsius", "fahrenheit" }

\* Optional[Literal["celsius", "fahrenheit"]] with default "celsius"
ValidateTemperatureUnit(d) ==
    IF ~Has(d, "temperature_unit") THEN Ok(Some("celsius"))
    ELSE LET v == Get(d, "temperature_unit")
         IN  IF v[1] = "null" THEN Ok(None)
             ELSE IF v[1] = "string" /\ v[2] \in TemperatureUnits THEN Ok(Some(v[2]))
             ELSE Raise(<<"ValidationError", LibraryText("ValidationError")>>)

\* Optional[Literal[...]] with a default: absent, null or one of the literals
ValidateLiteral(d, k, literals, default) ==
    IF ~Has(d, k) THEN Ok(Some(default))
    ELSE LET v == Get(d, k)
         IN  IF v[1] = "null" THEN Ok(None)
             ELSE IF v[1] = "string" /\ v[2] \in literals THEN Ok(Some(v[2]))
             ELSE Raise(<<"ValidationError", LibraryText("ValidationError")>>)

\* timezone: Optional[str] with default "GMT"
ValidateTimezone(d) ==
    IF ~Has(d, "timezone") THEN Ok(Some("GMT"))
    ELSE LET v == Get(d, "timezone")
         IN  IF v[1] = "null" THEN Ok(None)
             ELSE IF v[1] = "string" THEN Ok(Some(v[2]))
             ELSE Raise(<<"ValidationError", LibraryText("ValidationError")>>)

\* elevation: Optional[float] with default None
ValidateElevation(d) ==
    IF ~Has(d, "elevation") THEN Ok(None)
    ELSE LET v == Get(d, "elevation")
         IN  IF v[1] = "null" THEN Ok(None)
             ELSE IF v[1] = "number" THEN Ok(Some(v[2]))
             ELSE Raise(<<"ValidationError", LibraryText("ValidationError")>>)

\* a required float that was assigned a number
ValidateFloat(d, k) ==
    IF ~Has(d, k) THEN Raise(<<"ValidationError", LibraryText("ValidationError")>>)
    ELSE IF Get(d, k)[1] = "number" THEN Ok(Get(d, k)[2])
    ELSE Raise(<<"ValidationError", LibraryText("ValidationError")>>)

\* CurrentWeatherRequest(**request_data) for a request_data whose current
\* was assigned by generate_weather_request: latitude and longitude are
\* required, the other fields take their defaults when absent; every field
\* that is supplied must validate.  No completion of the model supplies
\* models, which keeps its default.
NewRequest(d) ==
    LET unit == ValidateTemperatureUnit(d)
        latitude == ValidateFloat(d, "latitude")
        longitude == ValidateFloat(d, "longitude")
        elevation == ValidateElevation(d)
        wind == ValidateLiteral(d, "wind_speed_unit", { "kmh", "ms", "mph", "kn" }, "kmh")
        precipitation == ValidateLiteral(d, "precipitation_unit", { "mm", "inch" }, "mm")
        timeformat == ValidateLiteral(d, "timeformat", { "iso8601", "unixtime" }, "iso8601")
        timezone == ValidateTimezone(d)
        cell == ValidateLiteral(d, "cell_selection", { "land", "sea", "nearest" }, "land")
        failed == FirstFailure(<<latitude, longitude, elevation, unit, wind, precipitation,
                                 timeformat, timezone, cell>>)
    IN  IF Raised(failed) THEN failed
        ELSE Ok([ latitude |-> latitude[2],
                  longitude |-> longitude[2],
                  elevation |-> elevation[2],
                  current |-> Some(Get(d, "current")[2]),
                  temperature_unit |-> unit[2],
                  wind_speed_unit |-> wind[2],
                  precipitation_unit |-> precipitation[2],
                  timeformat |-> timeformat[2],
                  timezone |-> timezone[2],
                  models |-> None,
                  cell_selection |-> cell[2] ])

-----------------------------------------------------------------------------
(* utils/geo_utils.py: get_location_from_ip *)

\* the public address of the machine the service runs on, as the IP lookup
\* reports it, and the addresses a request can come from
ServerIp == "198.51.100.1"
CallerIps == { "203.0.113.7", ServerIp }

\* where the geolocation provider places an address: <<latitude, longitude>>
Location(ip) == IF ip = ServerIp THEN <<37, -122>> ELSE <<0, 0>>

\* the decimal text of the numbers that occur
NumberText == { <<0, "0">>, <<37, "37">>, <<-122, "-122">> }

\* JSON numbers are <<"number", n>>
Number(n) == <<"number", n>>
NumericString(n) == <<"string", (CHOOSE p \in NumberText : p[1] = n)[2]>>

\* float(v) for a JSON number or string
float(v) ==
    IF v[1] = "number" THEN Ok(v[2])
    ELSE IF v[1] = "string" /\ \E p \in NumberText : p[2] = v[2]
    THEN Ok((CHOOSE p \in NumberText : p[2] = v[2])[1])
    ELSE Raise(<<"ValueError", LibraryText("ValueError")>>)

\* d.get(k): None when the key is absent or null
GetOrNone(d, k) ==
    IF Has(d, k) /\ Get(d, k) # <<"null">> THEN Some(Get(d, k)) ELSE None

\* the exceptions of an httpx request followed by raise_for_status() and json()
HttpErrors ==
    { <<"TimeoutException", LibraryText("TimeoutException")>>,
      <<"HTTPStatusError", LibraryText("HTTPStatusError")>>,
      <<"ConnectError", LibraryText("ConnectError")>> }

\* what the IP lookup can do: fail, or answer with or without an address
IpLookups ==
    { Raise(e) : e \in HttpErrors } \cup { Ok(<<>>), Ok(<< <<"ip", <<"string", ServerIp>> >> >>) }

\* what the geolocation provider can do for an address: fail, or answer with
\* a body that holds the coordinates as numbers or as strings, or lacks them
Geolocations(ip) ==
    LET lat == Location(ip)[1]
        lon == Location(ip)[2]
    IN  { Raise(e) : e \in HttpErrors }
        \cup { Ok(body) : body \in
                 { <<>>,
                   << <<"latitude", Number(lat)>>, <<"longitude", Number(lon)>> >>,
                   << <<"latitude", NumericString(lat)>>, <<"longitude", NumericString(lon)>> >>,
                   << <<"latitude", <<"string", "Sign up to access">> >>,
                      <<"longitude", Number(lon)>> >>,
                   << <<"latitude", Number(lat)>>, <<"longitude", <<"null">> >> >>,
                   << <<"latitude", Number(lat)>> >> } }

\* what the provider can do for the address that was determined; it is not
\* called when none was
GeolocationsFor(target) ==
    IF Raised(target) THEN { Ok(<<>>) } ELSE Geolocations(target[2])

\* the branch on client_ip: the address to locate, with the outbound call made
\* for it, if any, as <<outcome, calls>>
TargetIp(client_ip, lookup) ==
    IF client_ip = None
    THEN IF Raised(lookup) THEN << lookup, << <<"ip_lookup", FALSE>> >> >>
         ELSE LET public_ip == GetOrNone(lookup[2], "ip")
              IN  IF public_ip = None \/ public_ip[1][2] = ""
                  THEN << Raise(<<"Exception", "Unable to determine public IP address">>),
                          << <<"ip_lookup", TRUE>> >> >>
                  ELSE << Ok(public_ip[1][2]), << <<"ip_lookup", TRUE>> >> >>
    ELSE << Ok(client_ip[1]), <<>> >>

\* a variant that falls back to the coordinates <<0, 0>>
CoordinatesOrOrigin(ip, geo) == Ok(<<0, 0>>)

\* the coordinates from the provider's answer for target_ip
Coordinates(ip, geo) ==
    IF Raised(geo) THEN geo
    ELSE LET latitude == GetOrNone(geo[2], "latitude")
             longitude == GetOrNone(geo[2], "longitude")
         IN  IF latitude = None \/ longitude = None
             THEN Raise(<<"Exception", "Unable to get coordinates for IP " \o ip>>)
             ELSE IF Raised(float(latitude[1])) THEN float(latitude[1])
             ELSE IF Raised(float(longitude[1])) THEN float(longitude[1])
             ELSE Ok(<<float(latitude[1])[2], float(longitude[1])[2]>>)

\* a variant without the except clauses: an exception leaves as it is
LocationUnhandled(o) == o

\* the three except clauses around the body
LocationHandlers(o) ==
    IF ~Raised(o) THEN o
    ELSE IF o[2][1] = "TimeoutException"
    THEN Raise(<<"Exception", "Timeout while getting location from IP address">>)
    ELSE IF o[2][1] = "HTTPStatusError"
    THEN Raise(<<"Exception", "HTTP error while getting location: " \o str(o[2])>>)
    ELSE Raise(<<"Exception", "Error getting location from IP: " \o str(o[2])>>)

\* get_location_from_ip(client_ip) when the IP lookup does lookup and the
\* geolocation provider does geo: what it returns or raises, the outbound
\* calls it makes and the address it locates
get_location_from_ip(client_ip, lookup, geo) ==
    LET t == TargetIp(client_ip, lookup)
    IN  IF Raised(t[1])
        THEN [ outcome |-> LocationHandlers(t[1]), calls |-> t[2], target |-> None ]
        ELSE [ outcome |-> LocationHandlers(Coordinates(t[1][2], geo)),
               calls |-> Append(t[2], <<"geolocation", ~Raised(geo)>>),
               target |-> Some(t[1][2]) ]

-----------------------------------------------------------------------------
(* agents/simple_agent.py: generate_weather_request.  Its locals prompts and *)
(* config are held in the variables of those names.                         *)

\* the outbound calls of one request to the endpoint, in the order the code
\* reaches them
OutboundChain ==
    <<"classifier_llm", "parameter_llm", "request_llm", "ip_lookup", "geolocation",
      "weather_get", "answer_llm">>

\* config["openai"][section], prompts[section]["system"] and the keys of the
\* section that the log line and the call's arguments read
SectionLookups(section) ==
    LET c == Subscript2(config, "openai", section)
    IN  WithText(IF Raised(c) THEN c
                 ELSE FirstFailure(<< Subscript2(prompts, section, "system"),
                                      Subscript(c[2], "model"),
                                      Subscript(c[2], "max_tokens"),
                                      Subscript(c[2], "temperature") >>))

\* a variant that starts the function over when a statement fails
GenRestart(o, next) ==
    IF Raised(o)
    THEN gpc' = "start" /\ UNCHANGED gexc
    ELSE gpc' = next /\ UNCHANGED gexc

\* a statement of the try block with outcome o: go on at next, or leave for
\* the handler with the exception
GenContinue(o, next) ==
    IF Raised(o)
    THEN gpc' = "except" /\ gexc' = Some(o[2])
    ELSE gpc' = next /\ UNCHANGED gexc

\* the contents the parameter-extraction completion can have
ParamContents ==
    { None, Some("invalid json"), Some("[]"), Some("{}"),
      Some("{\"temperature_2m\": true}"),
      Some("{\"is_day\": true, \"temperature_2m\": null, \"soil\": true}"),
      Some("{\"is_day\": \"maybe\"}") }

\* the contents the request-building completion can have
RequestContents ==
    { None, Some("invalid json"), Some("null"), Some("{}"),
      Some("{\"temperature_unit\": \"fahrenheit\"}"),
      Some("{\"temperature_unit\": \"kelvin\"}"),
      Some("{\"temperature_unit\": null, \"latitude\": \"north\"}"),
      Some("{\"current\": {\"is_day\": true}, \"latitude\": 99, \"timezone\": \"auto\", \"wind_speed_unit\": \"mph\"}"),
      Some("{\"timezone\": null, \"elevation\": 100, \"cell_selection\": \"nowhere\"}") }

\* the schema of a field: Field(default, description=...) of an Optional type
\* with the given member schemas, as pydantic's model_json_schema renders it
OptionalField(name, title, members, default) ==
    << <<"anyOf", members \o << << <<"type", "null">> >> >> >>,
       <<"default", default>>,
       <<"description", Get(RequestFields, name)[1]>>,
       <<"title", title>> >>

\* the schema of a required float field
FloatField(name, title) ==
    << <<"description", Get(RequestFields, name)[1]>>,
       <<"title", title>>,
       <<"type", "number">> >>

\* the schema of a Literal of strings
Enum(values) == << <<"enum", values>>, <<"type", "string">> >>

\* the schema of one flag of CurrentWeatherParameters
FlagField(i, title) ==
    << <<"anyOf", << << <<"type", "boolean">> >>, << <<"type", "null">> >> >> >>,
       <<"default", FALSE>>,
       <<"description", ParameterFields[i][2][1]>>,
       <<"title", title>> >>

\* CurrentWeatherParameters.model_json_schema(), for the flags of ParamNames
ParametersJsonSchema ==
    << <<"description",
         "Available current weather parameters for Open-Meteo API. Every parameter for current weather also works for hourly weather.">>,
       <<"properties",
         << <<"temperature_2m", FlagField(1, "Temperature 2M")>>,
            <<"wind_speed_10m", FlagField(2, "Wind Speed 10M")>>,
            <<"is_day", FlagField(3, "Is Day")>> >> >>,
       <<"title", "CurrentWeatherParameters">>,
       <<"type", "object">> >>

\* CurrentWeatherRequest.model_json_schema(): the schema pydantic derives from
\* the declared fields, with the nested model under $defs
RequestJsonSchema ==
    << <<"$defs", << <<"CurrentWeatherParameters", ParametersJsonSchema>> >> >>,
       <<"description", "Request model for forecasted weather data using the new API provider">>,
       <<"properties",
         << <<"latitude", FloatField("latitude", "Latitude")>>,
            <<"longitude", FloatField("longitude", "Longitude")>>,
            <<"elevation",
              OptionalField("elevation", "Elevation", << << <<"type", "number">> >> >>, <<"null">>)>>,
            <<"current",
              << <<"anyOf", << << <<"$ref", "#/$defs/CurrentWeatherParameters">> >>,
                               << <<"type", "null">> >> >> >>,
                 <<"default", <<"null">> >>,
                 <<"description", Get(RequestFields, "current")[1]>> >> >>,
            <<"temperature_unit",
              OptionalField("temperature_unit", "Temperature Unit",
                            << Enum(<<"celsius", "fahrenheit">>) >>, "celsius")>>,
            <<"wind_speed_unit",
              OptionalField("wind_speed_unit", "Wind Speed Unit",
                            << Enum(<<"kmh", "ms", "mph", "kn">>) >>, "kmh")>>,
            <<"precipitation_unit",
              OptionalField("precipitation_unit", "Precipitation Unit",
                            << Enum(<<"mm", "inch">>) >>, "mm")>>,
            <<"timeformat",
              OptionalField("timeformat", "Timeformat",
                            << Enum(<<"iso8601", "unixtime">>) >>, "iso8601")>>,
            <<"timezone",
              OptionalField("timezone", "Timezone", << << <<"type", "string">> >> >>, "GMT")>>,
            <<"models",
              OptionalField("models", "Models",
                            << << <<"items", << <<"type", "string">> >> >>,
                                  <<"type", "array">> >> >>,
                            <<"null">>)>>,
            <<"cell_selection",
              OptionalField("cell_selection", "Cell Selection",
                            << Enum(<<"land", "sea", "nearest">>) >>, "land")>> >> >>,
       <<"required", <<"latitude", "longitude">> >>,
       <<"title", "CurrentWeatherRequest">>,
       <<"type", "object">> >>

\* d.pop(k, None)
Pop(d, k) == SelectSeq(d, LAMBDA p : p[1] # k)

\* a variant that takes out the parameter set only
PopCurrent(properties) == Pop(properties, "current")

\* the three pops on base_request_schema['properties']
PopFields(properties) == Pop(Pop(Pop(properties, "current"), "latitude"), "longitude")

\* base_request_schema: the request schema without the three fields, made strict
BaseRequestSchema(json_schema) ==
    ensure_strict_schema(
        Put(json_schema, "properties", PopFields(Get(json_schema, "properties"))))

\* a variant that keeps a key the completion's output already has
AssignIfAbsent(d, k, v) == IF Has(d, k) THEN d ELSE Put(d, k, v)

\* request_data[k] = v
Assign(d, k, v) == Put(d, k, v)

\* a variant in which the endpoint passes the address of its caller
ClientIpOfCaller == Some(callerIp)

\* the client_ip that generate_weather_request is called with: the endpoint
\* passes the query only, so the parameter keeps its default None
GenClientIp == None

\* prompts = load_json(...); config = load_json(...); then the two schemas are
\* built from the models, which raises nothing
GenLoad ==
    /\ apc = "generate" /\ gpc = "start"
    /\ LET p == WithText(load_json(promptsFile))
           c == WithText(load_json(configFile))
       IN  /\ GenContinue(FirstFailure(<<p, c>>), "loaded")
           /\ prompts' = IF Raised(p) THEN prompts ELSE p[2]
           /\ config' = IF Raised(p) \/ Raised(c) THEN config ELSE c[2]
           /\ base_request_schema' =
                IF Raised(p) \/ Raised(c) THEN base_request_schema
                ELSE Some(BaseRequestSchema(RequestJsonSchema))
    /\ UNCHANGED <<request_data, generated, log, target_ip, geo_data, kwargs, response_format,
                   request_output>>

\* the first call: the lookups, the completion, json.loads of its content and
\* weather_params = CurrentWeatherParameters(**param_data)
GenParams ==
    /\ apc = "generate" /\ gpc = "loaded"
    /\ LET look == SectionLookups("weather_parameter_extraction")
       IN  IF Raised(look)
           THEN GenContinue(look, "params") /\ UNCHANGED <<log, kwargs>>
           ELSE \E completion \in Completions(ParamContents) :
                  /\ log' = Append(log, <<"parameter_llm", ~Raised(completion)>>)
                  /\ LET param_data == IF Raised(completion) THEN completion
                                       ELSE loads_content(completion[2])
                         weather_params == IF Raised(param_data) THEN param_data
                                           ELSE NewParameters(param_data[2])
                     IN  /\ GenContinue(weather_params, "params")
                         /\ kwargs' = IF Raised(weather_params) THEN kwargs
                                      ELSE Some(weather_params[2])
    /\ UNCHANGED <<prompts, config, request_data, generated, target_ip, geo_data, schemaVars,
                   request_output>>

\* the second call: the lookups, the completion, json.loads of its content
\* and request_data["current"] = weather_params
GenRequest ==
    /\ apc = "generate" /\ gpc = "params"
    /\ LET look == SectionLookups("weather_request_building")
       IN  IF Raised(look)
           THEN /\ GenContinue(look, "request")
                /\ UNCHANGED <<log, request_data, response_format, request_output>>
           ELSE \E completion \in Completions(RequestContents) :
                  /\ log' = Append(log, <<"request_llm", ~Raised(completion)>>)
                  /\ response_format' = base_request_schema
                  /\ LET loaded == IF Raised(completion) THEN completion
                                   ELSE loads_content(completion[2])
                         assigned ==
                             IF Raised(loaded) THEN loaded
                             ELSE IF loaded[2][1] # "object"
                             THEN Raise(<<"TypeError", LibraryText("TypeError")>>)
                             ELSE Ok(Assign(loaded[2][2], "current",
                                            <<"model", CurrentWeatherParameters(kwargs[1])>>))
                     IN  /\ GenContinue(assigned, "request")
                         /\ request_output' = IF Raised(loaded) THEN request_output
                                              ELSE Some(loaded[2])
                         /\ request_data' = IF Raised(assigned) THEN request_data
                                            ELSE Some(assigned[2])
    /\ UNCHANGED <<prompts, config, generated, target_ip, geo_data, kwargs, base_request_schema>>

\* latitude, longitude = get_location_from_ip(client_ip) and the two
\* assignments to request_data
GenLocate ==
    /\ apc = "generate" /\ gpc = "request"
    /\ \E lookup \in IpLookups :
         \E geo \in GeolocationsFor(TargetIp(GenClientIp, lookup)[1]) :
           LET r == get_location_from_ip(GenClientIp, lookup, geo)
           IN  /\ log' = log \o r.calls
               /\ target_ip' = r.target
               /\ geo_data' = IF r.target = None \/ Raised(geo) THEN None ELSE Some(geo[2])
               /\ GenContinue(r.outcome, "located")
               /\ request_data' =
                    IF Raised(r.outcome) THEN request_data
                    ELSE Some(Assign(Assign(request_data[1], "latitude", Number(r.outcome[2][1])),
                                     "longitude", Number(r.outcome[2][2])))
    /\ UNCHANGED <<prompts, config, generated, kwargs, schemaVars, request_output>>

\* weather_request = CurrentWeatherRequest(**request_data); return weather_request
GenBuild ==
    /\ apc = "generate" /\ gpc = "located"
    /\ LET weather_request == NewRequest(request_data[1])
       IN  /\ GenContinue(weather_request, "returned")
           /\ generated' = IF Raised(weather_request) THEN generated ELSE weather_request
    /\ UNCHANGED <<prompts, config, request_data, log, target_ip, geo_data, kwargs, schemaVars,
                   request_output>>

\* a variant of the handler that raises the exception again as it is
Reraised(e) == e

\* Exception(f"Error generating weather request: {e}")
WithContext(e) == <<"Exception", "Error generating weather request: " \o str(e)>>

\* except Exception as e: raise Exception(...)
GenExcept ==
    /\ apc = "generate" /\ gpc = "except"
    /\ generated' = Raise(WithContext(gexc[1]))
    /\ gpc' = "raised"
    /\ UNCHANGED <<prompts, config, gexc, request_data, log, target_ip, geo_data, kwargs,
                   schemaVars, request_output>>

-----------------------------------------------------------------------------
(* main.py: get_current_weather *)

\* what the weather API can answer to the GET: an error, a body that is not
\* JSON, or a JSON body with or without the fields of CurrentWeatherResponse
WeatherBodies ==
    { <<"text">>,
      <<"object", << <<"latitude", Number(37)>>, <<"longitude", Number(-122)>>,
                     <<"elevation", Number(0)>> >> >>,
      <<"object", << <<"latitude", Number(37)>>, <<"longitude", Number(-122)>>,
                     <<"elevation", Number(0)>>,
                     <<"current", <<"object", << <<"temperature_2m", Number(37)>> >> >> >> >> >>,
      <<"object", << <<"latitude", Number(37)>>, <<"longitude", Number(-122)>>,
                     <<"elevation", Number(0)>>,
                     <<"current", <<"object", << <<"is_day", Number(1)>> >> >> >> >> >> }

WeatherAnswers == { Raise(e) : e \in HttpErrors } \cup { Ok(b) : b \in WeatherBodies }

\* response.json()
response_json(body) ==
    IF body[1] = "text" THEN Raise(<<"JSONDecodeError", LibraryText("JSONDecodeError")>>)
    ELSE Ok(body)

\* CurrentWeatherResponse(**response_data): latitude, longitude, elevation
\* and current are required
NewResponse(data) ==
    LET d == data[2]
        missing == Raise(<<"ValidationError", LibraryText("ValidationError")>>)
    IN  IF Raised(ValidateFloat(d, "latitude")) \/ Raised(ValidateFloat(d, "longitude"))
           \/ Raised(ValidateFloat(d, "elevation")) \/ ~Has(d, "current")
        THEN missing
        ELSE IF Raised(NewParameters(Get(d, "current"))) THEN missing
        ELSE Ok([ latitude |-> Get(d, "latitude")[2],
                  longitude |-> Get(d, "longitude")[2],
                  elevation |-> Get(d, "elevation")[2],
                  current |-> CurrentWeatherParameters(NewParameters(Get(d, "current"))[2]) ])

\* the try block: the GET with raise_for_status(), response.json() and the
\* response model
FetchBody(answer) ==
    IF Raised(answer) THEN answer
    ELSE IF Raised(response_json(answer[2])) THEN response_json(answer[2])
    ELSE NewResponse(response_json(answer[2])[2])

\* a variant with the general except clause only
FetchHandlerGeneral(e) == HTTPException("An error occurred: " \o str(e))

\* except httpx.HTTPStatusError / except Exception
FetchHandler(e) ==
    IF e[1] = "HTTPStatusError"
    THEN HTTPException("HTTP error occurred: " \o str(e))
    ELSE HTTPException("An error occurred: " \o str(e))

\* get_current_weather(weather_request)
AgentFetch ==
    /\ apc = "fetch"
    /\ request' = generated[2]
    /\ params' = build_weather_params(request')
    /\ built' = TRUE
    /\ \E answer \in WeatherAnswers :
         LET o == FetchBody(answer)
         IN  /\ log' = Append(log, <<"weather_get", ~Raised(answer)>>)
             /\ fexc' = IF Raised(o) THEN Some(o[2]) ELSE None
             /\ fetched' = IF Raised(o) THEN Raise(FetchHandler(o[2])) ELSE o
    /\ apc' = "fetched"
    /\ UNCHANGED <<locateVars, describeVars, strictVars, kwargs, classifyVars, callerIp, gpc, gexc, request_data,
                   generated, stages, target_ip, geo_data, answered, response, schemaVars, outputVars>>

-----------------------------------------------------------------------------
(* agents/simple_agent.py: answer_weather_query *)

AnswerContents == { None, Some("It is mild and sunny."), Some("") }

\* Exception(f"Error generating weather answer: {e}")
AnswerContext(e) == <<"Exception", "Error generating weather answer: " \o str(e)>>

\* prompts = load_json(...); config = load_json(...)
AgentLoadAnswer ==
    /\ apc = "answer"
    /\ LET p == WithText(load_json(promptsFile))
           c == WithText(load_json(configFile))
           o == FirstFailure(<<p, c>>)
       IN  /\ prompts' = IF Raised(p) THEN prompts ELSE p[2]
           /\ config' = IF Raised(o) THEN config ELSE c[2]
           /\ IF Raised(o)
              THEN answered' = Raise(AnswerContext(o[2])) /\ apc' = "answered"
              ELSE apc' = "answer_loaded" /\ UNCHANGED answered
    /\ UNCHANGED <<locateVars, describeVars, strictVars, buildVars, promptsFile, configFile, llm, cpc, exc, ret,
                   callerIp, gpc, gexc, request_data, generated, log, stages, target_ip, geo_data,
                   fexc, fetched, response, schemaVars, outputVars>>

\* the lookups, the completion and return content.strip()
AgentCallAnswer ==
    /\ apc = "answer_loaded"
    /\ LET look == SectionLookups("weather_answer_generation")
       IN  IF Raised(look)
           THEN answered' = Raise(AnswerContext(look[2])) /\ UNCHANGED log
           ELSE \E completion \in Completions(AnswerContents) :
                  /\ log' = Append(log, <<"answer_llm", ~Raised(completion)>>)
                  /\ LET answer == IF Raised(completion) THEN completion
                                   ELSE stripped(completion[2])
                     IN  answered' = IF Raised(answer) THEN Raise(AnswerContext(answer[2]))
                                     ELSE answer
    /\ apc' = "answered"
    /\ UNCHANGED <<locateVars, describeVars, strictVars, buildVars, classifyVars, callerIp, gpc, gexc, request_data,
                   generated, stages, target_ip, geo_data, fexc, fetched, response, schemaVars, outputVars>>

-----------------------------------------------------------------------------
(* main.py: simple_weather_agent *)

OutOfScope ==
    "I'm sorry, I can only answer questions about the weather at your current time and location."

\* AgentResponse(message=message), sent with status 200
Success(message) == <<200, message>>

\* a variant of the handler that answers with the message and success status
EndpointApology(e) == <<200, "Agent error: " \o str(e)>>

\* except Exception as e: raise HTTPException(status_code=500, detail=f"Agent error: {e}")
EndpointExcept(e) == <<500, "Agent error: " \o str(e)>>

\* not v, for a value v that json.loads produced
Falsy(v) == v \in { JFalse, <<"null">>, <<"string", "">> }

\* the stages of the endpoint in the order of its code
Stages ==
    <<"classify_weather_query", "generate_weather_request", "get_current_weather",
      "answer_weather_query">>

\* the request arrives and the endpoint calls classify_weather_query
AgentEnter ==
    /\ apc = "start"
    /\ apc' = "classify"
    /\ cpc' = "start"
    /\ stages' = Append(stages, "classify_weather_query")
    /\ UNCHANGED <<locateVars, describeVars, strictVars, buildVars, promptsFile, configFile, llm, prompts, config,
                   exc, ret, callerIp, gpc, gexc, request_data, generated, log, target_ip, geo_data,
                   fexc, fetched, answered, response, schemaVars, outputVars>>

\* what the steps of classify_weather_query leave alone when the endpoint runs
\* them, and the outbound call that its completion is
ClassifyFrame ==
    /\ apc = "classify"
    /\ UNCHANGED <<locateVars, describeVars, strictVars, buildVars, apc, callerIp, gpc, gexc, request_data,
                   generated, stages, target_ip, geo_data, fexc, fetched, answered, response, schemaVars, outputVars>>

\* a variant of the branch that goes on whatever the classifier said
GoesOn(v) == TRUE

\* the condition under which the endpoint goes on to the weather path
IsWeatherQuery(v) == ~Falsy(v)

\* if not is_weather_query: return the message; else call generate_weather_request
AgentBranch ==
    /\ apc = "classify" /\ cpc \in { "returned", "raised" }
    /\ IF cpc = "raised"
       THEN /\ response' = EndpointExcept(<<exc[1], LibraryText(exc[1])>>)
            /\ apc' = "done"
            /\ UNCHANGED <<gpc, stages>>
       ELSE IF IsWeatherQuery(ret[1])
       THEN /\ apc' = "generate"
            /\ gpc' = "start"
            /\ stages' = Append(stages, "generate_weather_request")
            /\ UNCHANGED response
       ELSE /\ response' = Success(OutOfScope)
            /\ apc' = "done"
            /\ UNCHANGED <<gpc, stages>>
    /\ UNCHANGED <<locateVars, describeVars, strictVars, buildVars, classifyVars, callerIp, gexc, request_data,
                   generated, log, target_ip, geo_data, fexc, fetched, answered, schemaVars, outputVars>>

\* what the steps of generate_weather_request leave alone
GenFrame ==
    UNCHANGED <<locateVars, describeVars, strictVars, request, params, built, promptsFile, configFile, llm, cpc,
                exc, ret, apc, callerIp, stages, fexc, fetched, answered, response>>

\* weather_request = generate_weather_request(request.query), then the call
\* of get_current_weather
AgentGenerated ==
    /\ apc = "generate" /\ gpc \in { "returned", "raised" }
    /\ IF Raised(generated)
       THEN /\ response' = EndpointExcept(generated[2])
            /\ apc' = "done"
            /\ UNCHANGED stages
       ELSE /\ apc' = "fetch"
            /\ stages' = Append(stages, "get_current_weather")
            /\ UNCHANGED response
    /\ UNCHANGED <<locateVars, describeVars, strictVars, buildVars, classifyVars, callerIp, gpc, gexc, request_data,
                   generated, log, target_ip, geo_data, fexc, fetched, answered, schemaVars, outputVars>>

\* current_weather_response = await get_current_weather(weather_request),
\* then the call of answer_weather_query
AgentFetched ==
    /\ apc = "fetched"
    /\ IF Raised(fetched)
       THEN /\ response' = EndpointExcept(fetched[2])
            /\ apc' = "done"
            /\ UNCHANGED stages
       ELSE /\ apc' = "answer"
            /\ stages' = Append(stages, "answer_weather_query")
            /\ UNCHANGED response
    /\ UNCHANGED <<locateVars, describeVars, strictVars, buildVars, classifyVars, callerIp, gpc, gexc, request_data,
                   generated, log, target_ip, geo_data, fexc, fetched, answered, schemaVars, outputVars>>

\* answer = answer_weather_query(...); return AgentResponse(message=answer)
AgentRespond ==
    /\ apc = "answered"
    /\ response' = IF Raised(answered) THEN EndpointExcept(answered[2])
                   ELSE Success(answered[2])
    /\ apc' = "done"
    /\ UNCHANGED <<locateVars, describeVars, strictVars, buildVars, classifyVars, callerIp, gpc, gexc, request_data,
                   generated, log, stages, target_ip, geo_data, fexc, fetched, answered, schemaVars, outputVars>>

-----------------------------------------------------------------------------
(* The surroundings of a request to the endpoint *)

Section(name) == <<name, << <<"system", "prompt">> >> >>

AllPrompts ==
    << Section("weather_classification"), Section("weather_parameter_extraction"),
       Section("weather_request_building"), Section("weather_answer_generation") >>

SectionConfig == SubSeq(GoodOpenAIConfig, 1, 3)

AllConfig ==
    << <<"openai", << <<"weather_classification", GoodOpenAIConfig>>,
                      <<"weather_parameter_extraction", SectionConfig>>,
                      <<"weather_request_building", SectionConfig>>,
                      <<"weather_answer_generation", SectionConfig>> >> >> >>

\* the prompts file: complete, with the classifier's section only, or absent
AgentPromptFiles == { JsonFile(AllPrompts), JsonFile(GoodPrompts), Missing }

\* the config file: complete, without the section of the answer, or with
\* the classifier's section only
AgentConfigFiles ==
    { JsonFile(AllConfig),
      JsonFile(<< <<"openai", SubSeq(AllConfig[1][2], 1, 3)>> >>),
      JsonFile(ConfigWith(GoodOpenAIConfig)) }

\* what the classifier's completion does
AgentClassifierOutcomes ==
    { Raise("APIConnectionError"), Ok(None), Ok(Some("invalid json")),
      Ok(Some("{\"is_weather_query\": true}")), Ok(Some("{\"is_weather_query\": false}")),
      Ok(Some("{\"is_weather_query\": \"yes\"}")), Ok(Some("{\"is_weather_query\": null}")) }

InitAgent ==
    /\ promptsFile \in AgentPromptFiles
    /\ configFile \in AgentConfigFiles
    /\ llm \in AgentClassifierOutcomes
    /\ callerIp \in CallerIps
    /\ apc = "start"
    /\ cpc = "idle"
    /\ prompts = None
    /\ config = None
    /\ exc = None
    /\ ret = None
    /\ gpc = "idle"
    /\ gexc = None
    /\ request_data = None
    /\ generated = None
    /\ log = <<>>
    /\ stages = <<>>
    /\ target_ip = None
    /\ geo_data = None
    /\ fexc = None
    /\ fetched = None
    /\ answered = None
    /\ response = None
    /\ StrictIdle
    /\ BuildIdle
    /\ DescribeIdle
    /\ OutputIdle
    /\ SchemaIdle
    /\ LocateIdle

NextAgent ==
    \/ AgentEnter
    \/ ClassifyLoadPrompts /\ ClassifyFrame /\ UNCHANGED log
    \/ ClassifyLoadConfig /\ ClassifyFrame /\ UNCHANGED log
    \/ ClassifyCall /\ ClassifyFrame
         /\ log' = IF Raised(Lookups) THEN log ELSE Append(log, <<"classifier_llm", ~Raised(llm)>>)
    \/ ClassifyParse /\ ClassifyFrame /\ UNCHANGED log
    \/ ClassifyExcept /\ ClassifyFrame /\ UNCHANGED log
    \/ AgentBranch
    \/ GenLoad /\ GenFrame
    \/ GenParams /\ GenFrame
    \/ GenRequest /\ GenFrame
    \/ GenLocate /\ GenFrame
    \/ GenBuild /\ GenFrame
    \/ GenExcept /\ GenFrame
    \/ AgentGenerated
    \/ AgentFetch
    \/ AgentFetched
    \/ AgentLoadAnswer
    \/ AgentCallAnswer
    \/ AgentRespond

SpecAgent == InitAgent /\ [][NextAgent]_vars

-----------------------------------------------------------------------------
(* Properties of the endpoint simple_weather_agent *)

\* the endpoint has called the stage
Called(stage) == \E i \in 1..Len(stages) : stages[i] = stage

\* the outbound call was made
Made(call) == \E i \in 1..Len(log) : log[i][1] = call

\* C12: the classifier runs first; when its result is false, also because it
\* failed, the endpoint answers with success and the out-of-scope message and
\* calls no other stage; when its result is true the request generator, the
\* weather fetcher and the answer generator are called in that order, each
\* only after the one before it succeeded.
C12_Order ==
    /\ \A i \in 1..Len(stages) : stages[i] = Stages[i]
    /\ Len(stages) >= 2 => cpc = "returned"
    /\ ret = Some(JFalse) =>
         /\ stages = << "classify_weather_query" >>
         /\ log \in { <<>>, << <<"classifier_llm", TRUE>> >>, << <<"classifier_llm", FALSE>> >> }
         /\ apc = "done" => response = Success(OutOfScope)
    /\ ret = Some(JTrueValue) =>
         /\ apc # "classify" => Called("generate_weather_request")
         /\ Called("get_current_weather") =>
              gpc = "returned" /\ generated # None /\ ~Raised(generated)
         /\ Called("answer_weather_query") => fetched # None /\ ~Raised(fetched)
         /\ (apc = "done" /\ response[1] = 200) =>
              stages = Stages /\ answered = Ok(response[2])

\* a weather query answered after all four stages
C12_Witness ==
    /\ ret = Some(JTrueValue)
    /\ stages = Stages
    /\ apc = "done"
    /\ response = Success("It is mild and sunny.")

\* the outbound call was made and failed
Failed(call) == \E i \in 1..Len(log) : log[i] = <<call, FALSE>>

\* generate_weather_request has ended, one way or the other
Generated == gpc \in { "returned", "raised" }

\* C13: generate_weather_request is all-or-nothing.  A failure of any step
\* leads to the handler, which returns no request and raises an error whose
\* text is the text of the cause behind "Error generating weather request: ";
\* a request is returned only when every step succeeded.
C13_AllOrNothing ==
    /\ gexc # None => gpc \in { "except", "raised" }
    /\ gpc = "except" => gexc # None /\ generated = None
    /\ gpc = "raised" =>
         /\ gexc # None
         /\ generated =
              Raise(<<"Exception", "Error generating weather request: " \o str(gexc[1])>>)
    /\ (Failed("parameter_llm") \/ Failed("request_llm") \/ Failed("ip_lookup")
        \/ Failed("geolocation")) => gexc # None
    /\ (Generated /\ (load_json(promptsFile)[1] = "raise" \/ load_json(configFile)[1] = "raise"))
         => gpc = "raised"
    /\ gpc = "returned" =>
         /\ generated # None /\ ~Raised(generated)
         /\ Len(log) >= 5
         /\ SubSeq(log, 1, 5) =
              << <<"classifier_llm", TRUE>>, <<"parameter_llm", TRUE>>,
                 <<"request_llm", TRUE>>, <<"ip_lookup", TRUE>>, <<"geolocation", TRUE>> >>
         /\ kwargs # None /\ generated[2].current = Some(CurrentWeatherParameters(kwargs[1]))
         /\ geo_data # None
         /\ float(Get(geo_data[1], "latitude")) = Ok(generated[2].latitude)
         /\ float(Get(geo_data[1], "longitude")) = Ok(generated[2].longitude)

\* the geolocation provider answered with an error status, and the error
\* raised carries that cause behind the context
C13_Witness ==
    /\ gpc = "raised"
    /\ Failed("geolocation")
    /\ generated = Raise(<<"Exception",
         "Error generating weather request: HTTP error while getting location: <HTTPStatusError>">>)

\* C14: no outbound call is made twice for one request, and when an outbound
\* call other than the classifier's completion fails, no further outbound
\* call is made and the request ends with an error response, never with a
\* success response.
C14_NoRetry ==
    /\ \A i \in 1..Len(log) : \E n \in 1..Len(OutboundChain) : log[i][1] = OutboundChain[n]
    /\ \A i, j \in 1..Len(log) : log[i][1] = log[j][1] => i = j
    /\ \A i \in 1..Len(log) :
         (log[i][2] = FALSE /\ log[i][1] # "classifier_llm") =>
              /\ i = Len(log)
              /\ response # None => response[1] = 500
              /\ apc = "done" => response # None

\* the weather GET failed once, and the request ended with an error response
C14_Witness ==
    /\ Len(log) = Len(OutboundChain) - 1
    /\ log[Len(log)] = <<"weather_get", FALSE>>
    /\ apc = "done"
    /\ response = <<500, "Agent error: 500: An error occurred: <ConnectError>">>

\* C15 as stated: a request makes at most 3 outbound calls.
C15_AtMostThree == Len(log) <= 3

\* C15, amended: a request makes its outbound calls one after the other, each
\* at most once and in the order classifier completion, parameter completion,
\* request completion, IP lookup, geolocation, weather GET, answer completion,
\* which is at most seven calls; a request that is answered from the weather
\* data has made all seven.
C15_Chain ==
    /\ Len(log) <= Len(OutboundChain)
    /\ \A i \in 1..Len(log) : log[i][1] = OutboundChain[i]
    /\ \A i \in 1..(Len(log) - 1) : log[i][2] = TRUE
    /\ (apc = "done" /\ stages = Stages /\ response[1] = 200) => Len(log) = Len(OutboundChain)

\* a weather query that was answered, after seven outbound calls
C15_Witness ==
    /\ apc = "done"
    /\ response = Success("")
    /\ Len(log) = Len(OutboundChain)
    /\ \A i \in 1..Len(log) : log[i] = <<OutboundChain[i], TRUE>>

\* the kinds of failure of the weather fetch
FailureKind(e) ==
    IF e[1] = "HTTPStatusError" THEN "upstream error status"
    ELSE IF e[1] \in { "TimeoutException", "ConnectError" } THEN "network failure"
    ELSE "response shape mismatch"

\* the exception classes that can reach the handlers of get_current_weather
FetchExceptions ==
    { "HTTPStatusError", "TimeoutException", "ConnectError", "JSONDecodeError",
      "ValidationError" }

\* The error surfaced for the failure that happened tells its kind from the
\* kinds in the set: an exception of one of those kinds with the same text
\* would have been surfaced as a different error.
Distinguishes(kinds) ==
    \A cls \in FetchExceptions :
        (FailureKind(<<cls, "">>) \in kinds /\ FailureKind(<<cls, "">>) # FailureKind(fexc[1]))
            => FetchHandler(<<cls, fexc[1][2]>>) # fetched[2]

\* C16 as stated: the fetch error tells each of the three kinds of failure
\* from the other two.
C16_ThreeKinds ==
    (fetched # None /\ Raised(fetched)) =>
        Distinguishes({ "upstream error status", "network failure", "response shape mismatch" })

\* C16, amended: a failure of the fetch is surfaced as an HTTPException with
\* status 500 that tells two kinds apart: an upstream error status gets the
\* detail "HTTP error occurred: ...", every other failure, network failure
\* and response shape mismatch alike, gets "An error occurred: ...", each
\* followed by the text of the cause.
C16_TwoKinds ==
    (fetched # None /\ Raised(fetched)) =>
        /\ fexc # None
        /\ fetched[2] =
             IF FailureKind(fexc[1]) = "upstream error status"
             THEN <<"HTTPException", "HTTP error occurred: " \o fexc[1][2], 500>>
             ELSE <<"HTTPException", "An error occurred: " \o fexc[1][2], 500>>
        /\ IF FailureKind(fexc[1]) = "upstream error status"
           THEN Distinguishes({ "network failure", "response shape mismatch" })
           ELSE Distinguishes({ "upstream error status" })

\* the weather API answered with an error status
C16_Witness ==
    /\ fexc = Some(<<"HTTPStatusError", "<HTTPStatusError>">>)
    /\ fetched = Raise(<<"HTTPException", "HTTP error occurred: <HTTPStatusError>", 500>>)
    /\ Failed("weather_get")

\* the provider's answer holds both coordinates, each a number or a string
\* that spells one
CoordinatesUsable ==
    /\ geo_data # None
    /\ GetOrNone(geo_data[1], "latitude") # None
    /\ GetOrNone(geo_data[1], "longitude") # None
    /\ ~Raised(float(Get(geo_data[1], "latitude")))
    /\ ~Raised(float(Get(geo_data[1], "longitude")))

\* C17: the weather API is called only for a request whose latitude and
\* longitude are both present and numbers; when the coordinates cannot be
\* obtained or are not numeric, generate_weather_request returns no request
\* and the weather API is not called.
C17_Coordinates ==
    /\ Made("weather_get") =>
         /\ CoordinatesUsable
         /\ request.latitude \in Int /\ request.longitude \in Int
         /\ float(Get(geo_data[1], "latitude")) = Ok(request.latitude)
         /\ float(Get(geo_data[1], "longitude")) = Ok(request.longitude)
         /\ Get(params, "latitude") = request.latitude
         /\ Get(params, "longitude") = request.longitude
    /\ (Generated /\ ~CoordinatesUsable) =>
         /\ generated # None /\ Raised(generated)
         /\ request = NoRequest
         /\ ~Made("weather_get")
    /\ (apc = "done" /\ ~CoordinatesUsable) => ~Made("weather_get")

\* the provider answered with a latitude that is not a number, and the
\* request ended without a call of the weather API
C17_Witness ==
    /\ apc = "done"
    /\ geo_data # None
    /\ GetOrNone(geo_data[1], "latitude") = Some(<<"string", "Sign up to access">>)
    /\ Raised(generated)
    /\ ~Made("weather_get")

\* C18: the address that is geolocated is the address of the caller who sent
\* the request, and the coordinates of the weather request are that
\* address's location.
C18_CallerLocated ==
    /\ target_ip # None => target_ip = Some(callerIp)
    /\ gpc = "returned" =>
         <<generated[2].latitude, generated[2].longitude>> = Location(callerIp)

-----------------------------------------------------------------------------
(* utils/request_utils.py: the two description functions.  Each renders the  *)
(* model_fields of a model class: its fields in declaration order, each with *)
(* the description its Field(...) declares, None where it declares none.     *)

\* a variant that renders a field without description as the empty string
DescriptionOrEmpty(description) ==
    IF description = None THEN "" ELSE description[1]

\* field_info.description or "No description available"
DescriptionOrDefault(description) ==
    IF description = None \/ description = Some("")
    THEN "No description available"
    ELSE description[1]

\* f"{field_name}: {description}"
Entry(field) == field[1] \o ": " \o DescriptionOrDefault(field[2])

\* the loop of get_weather_parameters_description: the list parameters
RECURSIVE ParameterEntries(_)
ParameterEntries(fields) ==
    IF fields = <<>> THEN <<>>
    ELSE <<Entry(Head(fields))>> \o ParameterEntries(Tail(fields))

get_weather_parameters_description(fields) == Join(ParameterEntries(fields), ", ")

\* a variant that leaves out the coordinates only
ExcludedCoordinates == { "latitude", "longitude" }

excluded_fields == { "current", "latitude", "longitude" }

\* the loop of get_weather_request_parameters_description: the list parameters
RECURSIVE RequestEntries(_)
RequestEntries(fields) ==
    IF fields = <<>> THEN <<>>
    ELSE (IF Head(fields)[1] \notin excluded_fields THEN <<Entry(Head(fields))>> ELSE <<>>)
         \o RequestEntries(Tail(fields))

get_weather_request_parameters_description(fields) == Join(RequestEntries(fields), ", ")

-----------------------------------------------------------------------------
(* The model classes the description functions are applied to: the two      *)
(* declared ones, and the same classes with the description of some fields  *)
(* left out of the declaration or declared empty.                           *)

MaxUndescribed == 2

Undescribed == { None, Some("") }

\* the field tables that differ from the declared one in at most n descriptions
RECURSIVE FieldTables(_, _)
FieldTables(declared, n) ==
    IF n = 0 THEN { declared }
    ELSE LET less == FieldTables(declared, n - 1)
         IN  less \cup { [x[1] EXCEPT ![x[2]] = <<x[1][x[2]][1], x[3]>>] :
                           x \in less \X (1..Len(declared)) \X Undescribed }

DeclaredFields(name) ==
    IF name = "CurrentWeatherParameters" THEN ParameterFields ELSE RequestFields

InitDescribe ==
    /\ model \in { "CurrentWeatherParameters", "CurrentWeatherRequest" }
    /\ model_fields \in FieldTables(DeclaredFields(model), MaxUndescribed)
    /\ description_text = None
    /\ StrictIdle
    /\ BuildIdle
    /\ ClassifyIdle
    /\ AgentIdle
    /\ LocateIdle
    /\ SchemaIdle
    /\ OutputIdle

\* description_text = get_weather_parameters_description()
DescribeParameters ==
    /\ model = "CurrentWeatherParameters"
    /\ description_text = None
    /\ description_text' = Some(get_weather_parameters_description(model_fields))
    /\ UNCHANGED <<model, model_fields>>

\* description_text = get_weather_request_parameters_description()
DescribeRequest ==
    /\ model = "CurrentWeatherRequest"
    /\ description_text = None
    /\ description_text' = Some(get_weather_request_parameters_description(model_fields))
    /\ UNCHANGED <<model, model_fields>>

NextDescribe ==
    \/ DescribeParameters /\ UNCHANGED <<strictVars, buildVars, classifyVars, agentVars, locateVars, schemaVars, outputVars>>
    \/ DescribeRequest /\ UNCHANGED <<strictVars, buildVars, classifyVars, agentVars, locateVars, schemaVars, outputVars>>

SpecDescribe == InitDescribe /\ [][NextDescribe]_vars

-----------------------------------------------------------------------------
(* Properties of the description functions *)

\* needle in s
Occurs(needle, s) ==
    \E i \in 1..(Len(s) - Len(needle) + 1) : SubSeq(s, i, i + Len(needle) - 1) = needle

\* s has an entry for the field name: "name: " at the start of s or right after a ", "
Token(name, s) ==
    LET t == name \o ": "
    IN  \E i \in 1..(Len(s) - Len(t) + 1) :
          /\ SubSeq(s, i, i + Len(t) - 1) = t
          /\ i = 1 \/ (i > 2 /\ SubSeq(s, i - 2, i - 1) = ", ")

\* the entry the description functions are to write for a field
Rendered(field) ==
    field[1] \o ": "
    \o (IF field[2] \in { None, Some("") } THEN "No description available" ELSE field[2][1])

RenderedAll(fields) == AsList([i \in 1..Len(fields) |-> Rendered(fields[i])])

\* C21: the parameters description is the entries "name: description" of all
\* declared parameters, one per parameter, in declaration order, joined by
\* ", ", so every declared name occurs in it; an empty or absent description
\* is rendered as "No description available".
C21_Description ==
    (model = "CurrentWeatherParameters" /\ description_text # None) =>
        /\ description_text[1] = Join(RenderedAll(model_fields), ", ")
        /\ \A i \in 1..Len(model_fields) :
             /\ Occurs(model_fields[i][1], description_text[1])
             /\ model_fields[i][2] \in Undescribed =>
                  Occurs(model_fields[i][1] \o ": No description available",
                         description_text[1])

\* the parameters of a class with one absent and one empty description were described
C21_Witness ==
    /\ model = "CurrentWeatherParameters"
    /\ description_text # None
    /\ model_fields[1][2] = None
    /\ model_fields[2][2] = Some("")

\* C22: the request description has one entry for every field of the weather
\* request other than current, latitude and longitude, in their declaration
\* order, and none of these three names occurs in it, as a field-name token
\* or otherwise.
C22_Excluded ==
    (model = "CurrentWeatherRequest" /\ description_text # None) =>
        LET kept == SelectSeq(model_fields,
                              LAMBDA f : f[1] \notin { "current", "latitude", "longitude" })
        IN  /\ description_text[1] = Join(RenderedAll(kept), ", ")
            /\ \A name \in { "current", "latitude", "longitude" } :
                 /\ ~Token(name, description_text[1])
                 /\ ~Occurs(name, description_text[1])
            /\ \A i \in 1..Len(kept) : Token(kept[i][1], description_text[1])

\* the declared weather request, which has the three fields, was described
C22_Witness ==
    /\ model = "CurrentWeatherRequest"
    /\ description_text # None
    /\ model_fields = RequestFields
    /\ \A name \in { "current", "latitude", "longitude" } : Has(model_fields, name)

-----------------------------------------------------------------------------
(* Calls of get_location_from_ip, with or without a client_ip, in every     *)
(* combination of what the two providers do.                                *)

\* what ipapi.co can answer, whichever address it is asked about
AllGeolocations == UNION { Geolocations(ip) : ip \in CallerIps }

InitLocate ==
    /\ locate_ip \in { None } \cup { Some(ip) : ip \in CallerIps }
    /\ ipify \in IpLookups
    /\ ipapi \in AllGeolocations
    /\ location = None
    /\ StrictIdle
    /\ BuildIdle
    /\ ClassifyIdle
    /\ AgentIdle
    /\ DescribeIdle
    /\ OutputIdle
    /\ SchemaIdle

\* location = get_location_from_ip(client_ip)
CallLocate ==
    /\ location = None
    /\ location' = Some(get_location_from_ip(locate_ip, ipify, ipapi))
    /\ UNCHANGED <<locate_ip, ipify, ipapi>>

NextLocate ==
    CallLocate /\ UNCHANGED <<strictVars, buildVars, classifyVars, agentVars, describeVars, schemaVars, outputVars>>

SpecLocate == InitLocate /\ [][NextLocate]_vars

-----------------------------------------------------------------------------
(* Properties of get_location_from_ip *)

\* the request to api.ipify.org is made, and the one to ipapi.co is made
LookupMade == locate_ip = None
GeolocationMade ==
    \/ locate_ip # None
    \/ ~Raised(ipify) /\ Has(ipify[2], "ip") /\ ipify[2] # << <<"ip", <<"string", "">> >> >>

\* the call c, which is made, fails with an exception of class cls
FailsWith(c, cls) == Raised(c) /\ c[2][1] = cls

\* the provider's body holds a value under the key
Present(body, key) == Has(body, key) /\ Get(body, key) # <<"null">>

\* the number a JSON value stands for, if it is numeric
NumericValues(v) ==
    IF v[1] = "number" THEN { v[2] }
    ELSE IF v[1] = "string" THEN { p[1] : p \in { q \in NumberText : q[2] = v[2] } }
    ELSE { }

\* the call raised an Exception whose message contains the text
RaisedNaming(text) ==
    /\ Raised(location[1].outcome)
    /\ location[1].outcome[2][1] = "Exception"
    /\ Occurs(text, location[1].outcome[2][2])

\* C23: get_location_from_ip returns a pair of numbers that are the latitude
\* and longitude of the geolocation response, or raises; it raises, naming
\* the cause, when the public-IP response has no ip, when the geolocation
\* response lacks a coordinate, on a timeout and on an HTTP error status.
C23_PairOrError ==
    location # None =>
        LET o == location[1].outcome
        IN  /\ ~Raised(o) =>
                 /\ GeolocationMade /\ ~Raised(ipapi)
                 /\ Present(ipapi[2], "latitude") /\ Present(ipapi[2], "longitude")
                 /\ NumericValues(Get(ipapi[2], "latitude")) = { o[2][1] }
                 /\ NumericValues(Get(ipapi[2], "longitude")) = { o[2][2] }
            /\ (LookupMade /\ ~Raised(ipify) /\ ~GeolocationMade) =>
                 RaisedNaming("Unable to determine public IP address")
            /\ (GeolocationMade /\ ~Raised(ipapi)
                  /\ ~(Present(ipapi[2], "latitude") /\ Present(ipapi[2], "longitude"))) =>
                 RaisedNaming("Unable to get coordinates")
            /\ ((LookupMade /\ FailsWith(ipify, "TimeoutException"))
                  \/ (GeolocationMade /\ FailsWith(ipapi, "TimeoutException"))) =>
                 RaisedNaming("Timeout while getting location from IP address")
            /\ ((LookupMade /\ FailsWith(ipify, "HTTPStatusError"))
                  \/ (GeolocationMade /\ FailsWith(ipapi, "HTTPStatusError"))) =>
                 RaisedNaming("HTTP error while getting location")

\* the function was called for a client address and the provider's answer had
\* a latitude and a null longitude
C23_Witness ==
    /\ location # None
    /\ locate_ip # None
    /\ ~Raised(ipapi)
    /\ Present(ipapi[2], "latitude")
    /\ Has(ipapi[2], "longitude") /\ ~Present(ipapi[2], "longitude")
    /\ RaisedNaming("Unable to get coordinates")

-----------------------------------------------------------------------------
(* Properties of generate_weather_request *)

\* the outbound calls of generate_weather_request, in the order of its code;
\* the last two are the requests get_location_from_ip makes
GenChain == <<"parameter_llm", "request_llm", "ip_lookup", "geolocation">>

Position(call) == CHOOSE i \in 1..Len(GenChain) : GenChain[i] = call

\* the calls it has made so far, in order, each with its success
GenCalls == SelectSeq(log, LAMBDA c : \E i \in 1..Len(GenChain) : c[1] = GenChain[i])

\* where the calls of one run stand: in the order of the code, none twice,
\* each only after the ones before it succeeded
GenCallsInOrder ==
    /\ \A i, j \in 1..Len(GenCalls) :
         i < j => Position(GenCalls[i][1]) < Position(GenCalls[j][1])
    /\ \A i \in 1..(Len(GenCalls) - 1) : GenCalls[i][2]
    /\ Made("request_llm") => GenCalls[1] = <<"parameter_llm", TRUE>>
    /\ (Made("ip_lookup") \/ Made("geolocation")) =>
         /\ Len(GenCalls) >= 3
         /\ GenCalls[2] = <<"request_llm", TRUE>>
    /\ gpc = "returned" =>
         /\ Len(GenCalls) >= 3
         /\ GenCalls[1] = <<"parameter_llm", TRUE>>
         /\ GenCalls[2] = <<"request_llm", TRUE>>
         /\ GenCalls[Len(GenCalls)] = <<"geolocation", TRUE>>

\* C27: in every run of generate_weather_request the outbound calls are made
\* one after the other in the order parameter extraction, request building,
\* geolocation lookup; a run that returns a request made each of the two LLM
\* calls exactly once; and once a step has failed no further call is made.
C27_Sequential ==
    /\ [](GenCallsInOrder)
    /\ [][/\ Len(GenCalls') >= Len(GenCalls)
          /\ SubSeq(GenCalls', 1, Len(GenCalls)) = GenCalls
          /\ gexc # None => GenCalls' = GenCalls]_vars

\* the first completion arrived but was not usable, and the run ended with
\* that one call
C27_Witness ==
    /\ gpc = "raised"
    /\ GenCalls = << <<"parameter_llm", TRUE>> >>

\* the names in a list of names
Names(list) == { list[i] : i \in 1..Len(list) }

\* the fields of the weather request that the second completion is to fill
\* in: all but the parameter set and the coordinates, in declaration order
RemainingFields ==
    Keys(SelectSeq(RequestFields, LAMBDA f : f[1] \notin { "current", "latitude", "longitude" }))

\* C28: the schema sent with the request-building completion is the strict
\* weather-request schema without current, latitude and longitude: none of
\* the three is among its properties or in its required list, and its
\* required list is exactly its remaining properties.
C28_SentSchema ==
    /\ Made("request_llm") <=> response_format # None
    /\ response_format # None =>
         LET sent == response_format[1]
         IN  /\ sent = ensure_strict_schema(sent)
             /\ IsObject(sent) /\ Closed(sent)
             /\ \A n \in Nodes(sent) : IsObject(n) => Closed(n)
             /\ \A name \in { "current", "latitude", "longitude" } :
                  /\ ~Has(Get(sent, "properties"), name)
                  /\ name \notin Names(Get(sent, "required"))
             /\ Keys(Get(sent, "properties")) = RemainingFields
             /\ Get(sent, "required") = Keys(Get(sent, "properties"))
             /\ \A i \in 1..Len(RemainingFields) :
                  Get(Get(sent, "properties"), RemainingFields[i])
                    = Get(Get(RequestJsonSchema, "properties"), RemainingFields[i])

\* the request-building completion was called, with a schema of eight
\* properties, from a model schema that requires latitude and longitude
C28_Witness ==
    /\ Made("request_llm")
    /\ response_format # None
    /\ Len(Get(response_format[1], "properties")) = 8
    /\ Get(RequestJsonSchema, "required") = <<"latitude", "longitude">>

\* the value a field takes from the completion's output: the default when
\* the key is absent, None for null
FromOutput(out, field, default) ==
    IF ~Has(out, field) THEN default
    ELSE IF Get(out, field)[1] = "null" THEN None
    ELSE Some(Get(out, field)[2])

\* C29: in the request that generate_weather_request returns, current is the
\* parameter set built from the first completion and latitude and longitude
\* are the pair the geolocation lookup returned, whatever the second
\* completion's output holds under these three keys; every other field is
\* the value of the second completion's output or, when absent there, its
\* default.
C29_Merged ==
    gpc = "returned" =>
        LET r == generated[2]
            out == request_output[1][2]
        IN  /\ kwargs # None /\ r.current = Some(CurrentWeatherParameters(kwargs[1]))
            /\ geo_data # None
            /\ NumericValues(Get(geo_data[1], "latitude")) = { r.latitude }
            /\ NumericValues(Get(geo_data[1], "longitude")) = { r.longitude }
            /\ r.elevation = FromOutput(out, "elevation", None)
            /\ r.temperature_unit = FromOutput(out, "temperature_unit", Some("celsius"))
            /\ r.wind_speed_unit = FromOutput(out, "wind_speed_unit", Some("kmh"))
            /\ r.precipitation_unit = FromOutput(out, "precipitation_unit", Some("mm"))
            /\ r.timeformat = FromOutput(out, "timeformat", Some("iso8601"))
            /\ r.timezone = FromOutput(out, "timezone", Some("GMT"))
            /\ r.models = FromOutput(out, "models", None)
            /\ r.cell_selection = FromOutput(out, "cell_selection", Some("land"))

\* a request was returned although the second completion's output had its
\* own current and latitude, and a timezone and a wind speed unit
C29_Witness ==
    /\ gpc = "returned"
    /\ Has(request_output[1][2], "current")
    /\ Has(request_output[1][2], "latitude")
    /\ Get(request_output[1][2], "latitude") # Number(generated[2].latitude)
    /\ generated[2].timezone = Some("auto")
    /\ generated[2].wind_speed_unit = Some("mph")
    /\ generated[2].temperature_unit = Some("celsius")

====
